---- MODULE Spec2Model ----
(***************************************************************************)
(* Yen tracker: the strategy / decision engine.                            *)
(*                                                                         *)
(* The engine is a set of pure functions (band classifier, thermostat,     *)
(* circuit breaker, portfolio aggregator, 52-week range, NISA projection). *)
(* Each function is an operator computed as the source computes it; a call *)
(* is one step of the state machine: `input` holds the arguments of the    *)
(* call, `output` the returned object once the call has been made.         *)
(*                                                                         *)
(* The HTTP handlers of the app work on the SQLite database `db`; there    *)
(* `input` is the request being handled, `output` its response, and `now`  *)
(* the server's clock, which stamps the rows written.  A handler runs its  *)
(* database calls synchronously (better-sqlite3), so it is one step.       *)
(*                                                                         *)
(* Numbers.  Pence and yen amounts are integers, as the validators         *)
(* require.  Rates are integers (JPY per GBP).  A real-valued quotient the *)
(* code returns unrounded (exposurePct, lossPct, unrealisedPnlPct,         *)
(* weightedAvgRate, percentile) is kept exact as a fraction                *)
(* [num |-> n, den |-> d] with d > 0.  Where the code rounds the result of *)
(* double arithmetic (the value of the yen held, the NISA projection) the  *)
(* model evaluates it as IEEE 754 doubles do, rounding after each          *)
(* operation; Math.round rounds a half towards +infinity.                  *)
(*                                                                         *)
(* Strings.  An ISO date or month token is the sequence of its characters, *)
(* so that String.prototype.startsWith is a real prefix test.              *)
(***************************************************************************)
EXTENDS Integers, Sequences, FiniteSets, TLC

VARIABLES input, output, db, now

vars == <<input, output, db, now>>

(***************************************************************************)
(* Bounds of the model.                                                    *)
(***************************************************************************)
MaxThreshold == 4      \* band thresholds range over 1..MaxThreshold
MaxConversions == 2    \* longest conversion list
MaxGbp == 2            \* gbp_amount ranges over 1..MaxGbp (pence)
MaxCap == 2            \* monthly caps range over 1..MaxCap (pence)
MaxSavings == 5        \* total_gbp_savings_pence is 0 or MaxSavings (pence)
MaxJpy == 3            \* jpy_amount ranges over 1..MaxJpy (yen)
MaxRateK == 3          \* current rates are 80 * k, k in -1..MaxRateK
MaxLossThreshold == 2  \* circuit_breaker_loss_pence ranges over 1..MaxLossThreshold
MaxHistory == 3        \* longest rate history
MaxHistRate == 3       \* history rates range over 1..MaxHistRate
MaxMonthlyJpy == 5     \* NISA monthly contribution ranges over 0..MaxMonthlyJpy
MaxYears == 3          \* NISA projection period ranges over 0..MaxYears
MaxTime == 1           \* the server's clock ranges over 0..MaxTime
MaxSettingThreshold == 3  \* thresholds of a settings body range over 0..MaxSettingThreshold
MaxDbConversions == 1  \* rows the conversions table holds at most
MaxAlerts == 4         \* rows the alerts table holds at most
MaxLedger == 3         \* rows of the conversion log kept under guidance

(***************************************************************************)
(* Values shared by the functions.                                         *)
(***************************************************************************)
Bands == {"AGGRESSIVE_BUY", "NORMAL_BUY", "HOLD", "REVERSE"}

Directions == {"GBP_TO_JPY", "JPY_TO_GBP"}

\* The state of `output` before the call has returned.
NotCalled == [pending |-> TRUE]

\* The JavaScript null a function may return.
Null == [null |-> TRUE]

\* JavaScript's undefined: a field the JSON body does not carry.
Undefined == [undefined |-> TRUE]

\* A string value, kept as the sequence of its characters.
Text(chars) == [text |-> chars]

\* The four tables of the SQLite database, as the schema creates them: empty.
EmptyDb ==
    [settings |-> <<>>, conversions |-> <<>>, rate_history |-> {}, alerts |-> <<>>,
     sqlite_sequence |-> [conversions |-> 0]]

\* An unrounded real quotient n / d (d # 0), kept exact with a positive denominator.
Ratio(n, d) == IF d < 0 THEN [num |-> -n, den |-> -d] ELSE [num |-> n, den |-> d]

\* A real-valued field holding the integer n.
Whole(n) == [num |-> n, den |-> 1]

\* Math.round(n / d) for d > 0: the nearest integer, a tie going towards +infinity.
Round(n, d) == (2 * n + d) \div (2 * d)

\* floor(log2(a / b)) for positive integers a and b.
Log2Floor(a, b) ==
    LET RECURSIVE Over(_, _)
        Over(x, y) ==
            IF x >= 2 * y THEN Over(x, 2 * y) + 1
            ELSE IF x < y THEN Over(2 * x, y) - 1
            ELSE 0
    IN Over(a, b)

Pow2(n) ==
    LET RECURSIVE Over(_)
        Over(k) == IF k = 0 THEN 1 ELSE 2 * Over(k - 1)
    IN Over(n)

\* Math.round((a / b) * 100) for b > 0, evaluated as the code does in IEEE doubles:
\* the division is rounded, then the product.  The result is that of the exact
\* quotient unless 100 a / b lies half-way between two integers; then it depends on
\* whether the two roundings land below, on or above the half.  (Magnitudes are those
\* of pence and yen amounts, far below 2^53.)  The double nearest to m / b is found
\* by dividing the quotient out to the 53 bits of a mantissa, bit by bit: rem is what
\* is left over b, up whether round-to-nearest-even takes the next double above.
RoundQuotientTimes100(a, b) ==
    IF (200 * a) % b # 0 \/ ((200 * a) \div b) % 2 = 0
    THEN (200 * a + b) \div (2 * b)
    ELSE LET m == IF a < 0 THEN -a ELSE a
             k == (100 * m) \div b
             shift == Log2Floor(200 * m, 2 * b) - Log2Floor(m, b) - 1
             RECURSIVE Bits(_, _, _)
             Bits(r, bit, n) ==
                 IF n = 0 THEN [rem |-> r, bit |-> bit]
                 ELSE Bits((2 * r) % b, IF 2 * r >= b THEN 1 ELSE 0, n - 1)
             last == Bits(m % b, (m \div b) % 2, 52 - Log2Floor(m, b))
             q == [rem |-> last.rem,
                   up |-> 2 * last.rem > b \/ (2 * last.rem = b /\ last.bit = 1)]
             \* the spacing of doubles below a power of two is half that above it
             below == IF k = 0 THEN b * Pow2(shift - 1) ELSE b * Pow2(shift)
             landed == IF q.rem = 0 THEN "on"
                       ELSE IF q.up
                       THEN (IF 100 * (b - q.rem) <= b * Pow2(shift) THEN "on" ELSE "above")
                       ELSE (IF 100 * q.rem <= below THEN "on" ELSE "below")
         IN IF a > 0
            THEN (IF landed = "below" THEN k ELSE k + 1)
            ELSE (IF landed = "above" THEN -(k + 1) ELSE -k)

Max(a, b) == IF a >= b THEN a ELSE b

Min(a, b) == IF a <= b THEN a ELSE b

\* String.prototype.startsWith on character sequences.
StartsWith(s, prefix) ==
    /\ Len(prefix) <= Len(s)
    /\ SubSeq(s, 1, Len(prefix)) = prefix

\* All sequences over S of length at most n.
SeqUpTo(S, n) == UNION {[1..k -> S] : k \in 0..n}

(***************************************************************************)
(* IEEE 754 double arithmetic, for the code that computes in doubles.      *)
(*                                                                         *)
(* A double is sign, mantissa and exponent: (-1)^neg * mant * 2^exp, the   *)
(* mantissa a natural number of at most 53 bits.  Naturals beyond the      *)
(* integers of the checker are sequences of limbs of 15 bits, the least    *)
(* significant first and no zero limb at the top.  Every operation is the  *)
(* exact one followed by rounding to nearest, ties to even; subnormals and *)
(* overflow are out of the range of money amounts.                         *)
(***************************************************************************)
LimbBits == 15

LimbBase == 2 ^ LimbBits

\* The limbs of a natural number.
BigOfNat(n) ==
    LET RECURSIVE Over(_)
        Over(k) == IF k = 0 THEN <<>> ELSE <<k % LimbBase>> \o Over(k \div LimbBase)
    IN Over(n)

\* The natural number of limbs that fit an integer.
BigToNat(x) ==
    LET RECURSIVE Over(_)
        Over(i) == IF i > Len(x) THEN 0 ELSE x[i] + LimbBase * Over(i + 1)
    IN Over(1)

\* Drops the zero limbs at the top.
BigTrim(x) ==
    LET RECURSIVE Over(_)
        Over(n) == IF n = 0 THEN <<>>
                   ELSE IF x[n] = 0 THEN Over(n - 1)
                   ELSE SubSeq(x, 1, n)
    IN Over(Len(x))

BigLimb(x, i) == IF i <= Len(x) THEN x[i] ELSE 0

BigAdd(x, y) ==
    LET n == Max(Len(x), Len(y))
        RECURSIVE Over(_, _)
        Over(i, carry) ==
            IF i > n THEN (IF carry = 0 THEN <<>> ELSE <<carry>>)
            ELSE LET sum == BigLimb(x, i) + BigLimb(y, i) + carry
                 IN <<sum % LimbBase>> \o Over(i + 1, sum \div LimbBase)
    IN Over(1, 0)

\* x - y for x >= y.
BigSub(x, y) ==
    LET RECURSIVE Over(_, _)
        Over(i, borrow) ==
            IF i > Len(x) THEN <<>>
            ELSE LET diff == BigLimb(x, i) - BigLimb(y, i) - borrow
                 IN <<diff % LimbBase>> \o Over(i + 1, IF diff < 0 THEN 1 ELSE 0)
    IN BigTrim(Over(1, 0))

\* -1, 0 or 1 as x is below, equal to or above y.
BigCmp(x, y) ==
    LET RECURSIVE Over(_)
        Over(i) == IF i = 0 THEN 0
                   ELSE IF x[i] < y[i] THEN -1
                   ELSE IF x[i] > y[i] THEN 1
                   ELSE Over(i - 1)
    IN IF Len(x) < Len(y) THEN -1
       ELSE IF Len(x) > Len(y) THEN 1
       ELSE Over(Len(x))

\* x * k for 0 <= k < LimbBase.
BigMulSmall(x, k) ==
    LET RECURSIVE Over(_, _)
        Over(i, carry) ==
            IF i > Len(x) THEN (IF carry = 0 THEN <<>> ELSE <<carry>>)
            ELSE LET product == x[i] * k + carry
                 IN <<product % LimbBase>> \o Over(i + 1, product \div LimbBase)
    IN IF k = 0 THEN <<>> ELSE Over(1, 0)

\* x with n zero limbs below it.
BigShiftLimbs(x, n) ==
    IF x = <<>> THEN <<>> ELSE [i \in 1..n |-> 0] \o x

BigMul(x, y) ==
    LET RECURSIVE Over(_)
        Over(i) ==
            IF i > Len(y) THEN <<>>
            ELSE BigAdd(BigShiftLimbs(BigMulSmall(x, y[i]), i - 1), Over(i + 1))
    IN Over(1)

\* Quotient and remainder of x by d, 0 < d < LimbBase.
BigDivSmall(x, d) ==
    LET RECURSIVE Over(_, _)
        \* the limbs i..1 with the remainder of the limbs above them
        Over(i, rem) ==
            IF i = 0 THEN [quot |-> <<>>, rem |-> rem]
            ELSE LET part == rem * LimbBase + x[i]
                     below == Over(i - 1, part % d)
                 IN [quot |-> Append(below.quot, part \div d), rem |-> below.rem]
        all == Over(Len(x), 0)
    IN [quot |-> BigTrim(all.quot), rem |-> all.rem]

\* x * 2^s.
BigShiftLeft(x, s) ==
    BigShiftLimbs(BigMulSmall(x, Pow2(s % LimbBits)), s \div LimbBits)

\* floor(x / 2^s).
BigShiftRight(x, s) ==
    IF s \div LimbBits >= Len(x) THEN <<>>
    ELSE BigDivSmall(SubSeq(x, s \div LimbBits + 1, Len(x)), Pow2(s % LimbBits)).quot

\* The number of bits of x; 0 for 0.
BigBitLen(x) ==
    IF x = <<>> THEN 0
    ELSE LimbBits * (Len(x) - 1) + Log2Floor(x[Len(x)], 1) + 1

BigIsOdd(x) == x # <<>> /\ x[1] % 2 = 1

MantissaBits == 53

\* The double nearest to (-1)^neg * mant * 2^exp, ties to the even mantissa.
DoubleNearest(neg, mant, exp) ==
    LET s == BigBitLen(mant) - MantissaBits
    IN IF s <= 0 THEN [neg |-> neg, mant |-> mant, exp |-> exp]
       ELSE LET kept == BigShiftRight(mant, s)
                lost == BigSub(mant, BigShiftLeft(kept, s))
                half == BigCmp(lost, BigShiftLeft(<<1>>, s - 1))
                up == half > 0 \/ (half = 0 /\ BigIsOdd(kept))
            IN [neg |-> neg,
                mant |-> IF up THEN BigAdd(kept, <<1>>) ELSE kept,
                exp |-> exp + s]

\* The double of an integer (below 2^31, so exact).
DoubleOfInt(n) ==
    [neg |-> n < 0, mant |-> BigOfNat(IF n < 0 THEN -n ELSE n), exp |-> 0]

\* a * b in doubles.
DoubleMul(a, b) ==
    IF a.mant = <<>> \/ b.mant = <<>>
    THEN [neg |-> a.neg # b.neg, mant |-> <<>>, exp |-> 0]
    ELSE DoubleNearest(a.neg # b.neg, BigMul(a.mant, b.mant), a.exp + b.exp)

\* a + b in doubles.
DoubleAdd(a, b) ==
    LET exp == Min(a.exp, b.exp)
        x == BigShiftLeft(a.mant, a.exp - exp)
        y == BigShiftLeft(b.mant, b.exp - exp)
    IN IF a.neg = b.neg THEN DoubleNearest(a.neg, BigAdd(x, y), exp)
       ELSE IF BigCmp(x, y) >= 0 THEN DoubleNearest(a.neg, BigSub(x, y), exp)
       ELSE DoubleNearest(b.neg, BigSub(y, x), exp)

\* a / d in doubles, for an integer 0 < d < LimbBase: the quotient is divided out to
\* more bits than a mantissa holds, with one more bit that says whether anything was
\* left, and then rounded.
DoubleDivInt(a, d) ==
    LET k == Max(0, 5 * LimbBits - BigBitLen(a.mant))
        divided == BigDivSmall(BigShiftLeft(a.mant, k), d)
        sticky == IF divided.rem = 0 THEN <<>> ELSE <<1>>
    IN DoubleNearest(a.neg, BigAdd(BigMulSmall(divided.quot, 2), sticky), a.exp - k - 1)

\* Math.round of a double whose result fits an integer: floor(a + 0.5).
DoubleRound(a) ==
    IF a.exp >= 0
    THEN (IF a.neg THEN -1 ELSE 1) * BigToNat(BigShiftLeft(a.mant, a.exp))
    ELSE LET s == -a.exp
             half == BigShiftLeft(<<1>>, s - 1)
         IN IF ~a.neg THEN BigToNat(BigShiftRight(BigAdd(a.mant, half), s))
            ELSE IF BigCmp(a.mant, half) < 0 THEN 0
            ELSE -BigToNat(BigShiftRight(
                     BigAdd(BigSub(a.mant, half), BigSub(BigShiftLeft(<<1>>, s), <<1>>)), s))

(***************************************************************************)
(* Band classifier: src/lib/strategy/bands.ts                              *)
(***************************************************************************)
\* Variant of determineBand with exclusive comparisons.
determineBandStrict(rate, thresholds) ==
    LET band == IF rate > thresholds.aggressiveAbove THEN "AGGRESSIVE_BUY"
                ELSE IF rate > thresholds.normalAbove THEN "NORMAL_BUY"
                ELSE IF rate > thresholds.holdAbove THEN "HOLD"
                ELSE "REVERSE"
    IN [band |-> band, rate |-> rate, thresholds |-> thresholds, suggestion |-> ""]

\* Variant of determineBand with the comparisons turned round.
determineBandInverted(rate, thresholds) ==
    LET band == IF rate <= thresholds.aggressiveAbove THEN "AGGRESSIVE_BUY"
                ELSE IF rate <= thresholds.normalAbove THEN "NORMAL_BUY"
                ELSE IF rate <= thresholds.holdAbove THEN "HOLD"
                ELSE "REVERSE"
    IN [band |-> band, rate |-> rate, thresholds |-> thresholds, suggestion |-> ""]

determineBand(rate, thresholds) ==
    LET band == IF rate >= thresholds.aggressiveAbove THEN "AGGRESSIVE_BUY"
                ELSE IF rate >= thresholds.normalAbove THEN "NORMAL_BUY"
                ELSE IF rate >= thresholds.holdAbove THEN "HOLD"
                ELSE "REVERSE"
        suggestion ==
            CASE band = "AGGRESSIVE_BUY" ->
                     "Rate is excellent. Convert up to your aggressive monthly cap."
              [] band = "NORMAL_BUY" ->
                     "Rate is favourable. Convert up to your normal monthly cap."
              [] band = "HOLD" ->
                     "Rate is below your buy threshold. Hold and wait for improvement."
              [] OTHER ->
                     "Rate is very low. Consider converting JPY back to GBP if needed."
    IN [band |-> band,
        rate |-> rate,
        thresholds |-> [aggressiveAbove |-> thresholds.aggressiveAbove,
                        normalAbove |-> thresholds.normalAbove,
                        holdAbove |-> thresholds.holdAbove],
        suggestion |-> suggestion]

\* Thresholds are not validated by the classifier: every triple is an input.
BandThresholds ==
    [aggressiveAbove : 1..MaxThreshold,
     normalAbove : 1..MaxThreshold,
     holdAbove : 1..MaxThreshold]

BandInputs ==
    [fn : {"determineBand"}, rate : 0..(MaxThreshold + 1), thresholds : BandThresholds]

InitBand == input \in BandInputs /\ output = NotCalled /\ db = EmptyDb /\ now = 0

CallDetermineBand ==
    /\ input.fn = "determineBand"
    /\ output = NotCalled
    /\ output' = determineBand(input.rate, input.thresholds)
    /\ UNCHANGED <<input, db, now>>

NextBand == CallDetermineBand

SpecBand == InitBand /\ [][NextBand]_vars

\* The precondition the settings validator guarantees to the classifier.
OrderedThresholds(t) ==
    t.holdAbove < t.normalAbove /\ t.normalAbove <= t.aggressiveAbove

Returned(fn) == input.fn = fn /\ output # NotCalled

\* C1: under ordered thresholds determineBand returns exactly one band, chosen by
\* inclusive comparisons in descending order: AGGRESSIVE_BUY iff rate >= aggressiveAbove,
\* NORMAL_BUY iff normalAbove <= rate < aggressiveAbove, HOLD iff
\* holdAbove <= rate < normalAbove, REVERSE iff rate < holdAbove.
C1_BandByInclusiveThresholds ==
    (Returned("determineBand") /\ OrderedThresholds(input.thresholds)) =>
        LET r == input.rate
            t == input.thresholds
            b == output.band
        IN /\ b \in Bands
           /\ (b = "AGGRESSIVE_BUY") <=> (r >= t.aggressiveAbove)
           /\ (b = "NORMAL_BUY") <=> (t.normalAbove <= r /\ r < t.aggressiveAbove)
           /\ (b = "HOLD") <=> (t.holdAbove <= r /\ r < t.normalAbove)
           /\ (b = "REVERSE") <=> (r < t.holdAbove)

\* A rate equal to the normal threshold, strictly between the other two, has been
\* classified NORMAL_BUY (the more aggressive of HOLD and NORMAL_BUY).
C1_Witness ==
    /\ Returned("determineBand")
    /\ OrderedThresholds(input.thresholds)
    /\ input.rate = input.thresholds.normalAbove
    /\ input.thresholds.normalAbove < input.thresholds.aggressiveAbove
    /\ output.band = "NORMAL_BUY"

\* Two classifications under the same thresholds: determineBand holds no state, so
\* the two calls are independent and are taken in one step.
BandPairInputs ==
    [fn : {"determineBand twice"},
     rate : 0..(MaxThreshold + 1),
     otherRate : 0..(MaxThreshold + 1),
     thresholds : BandThresholds]

InitBandPair == input \in BandPairInputs /\ output = NotCalled /\ db = EmptyDb /\ now = 0

CallDetermineBandTwice ==
    /\ input.fn = "determineBand twice"
    /\ output = NotCalled
    /\ output' = [first |-> determineBand(input.rate, input.thresholds),
                  second |-> determineBand(input.otherRate, input.thresholds)]
    /\ UNCHANGED <<input, db, now>>

NextBandPair == CallDetermineBandTwice

SpecBandPair == InitBandPair /\ [][NextBandPair]_vars

\* The order of the bands from the most cautious to the most aggressive.
BandRank(band) ==
    CASE band = "REVERSE" -> 0
      [] band = "HOLD" -> 1
      [] band = "NORMAL_BUY" -> 2
      [] band = "AGGRESSIVE_BUY" -> 3

\* C12: under fixed ordered thresholds determineBand is monotonic in the rate: for
\* rates r1 <= r2 the band of r2 is never more cautious than the band of r1 in the
\* order REVERSE < HOLD < NORMAL_BUY < AGGRESSIVE_BUY.
C12_BandMonotonicInRate ==
    (/\ Returned("determineBand twice")
     /\ OrderedThresholds(input.thresholds)
     /\ input.rate <= input.otherRate) =>
        /\ output.first.band \in Bands
        /\ output.second.band \in Bands
        /\ BandRank(output.first.band) <= BandRank(output.second.band)

\* Under three distinct ordered thresholds a lower rate has been classified HOLD and
\* a higher one AGGRESSIVE_BUY.
C12_Witness ==
    /\ Returned("determineBand twice")
    /\ OrderedThresholds(input.thresholds)
    /\ input.thresholds.normalAbove < input.thresholds.aggressiveAbove
    /\ input.rate < input.otherRate
    /\ output.first.band = "HOLD"
    /\ output.second.band = "AGGRESSIVE_BUY"

(***************************************************************************)
(* Conversion records and settings: src/types/index.ts                     *)
(***************************************************************************)
\* The fields of a ConversionRecord the engine reads.
ConversionRecords(dates, gbpAmounts, jpyAmounts, rates) ==
    [date : dates,
     direction : Directions,
     gbp_amount : gbpAmounts,
     jpy_amount : jpyAmounts,
     exchange_rate : rates]

\* The fields of the Settings row the engine reads.
SettingsRows(caps, savings, exposurePcts, lossThresholds) ==
    [cap_aggressive_gbp : caps,
     cap_normal_gbp : caps,
     total_gbp_savings_pence : savings,
     max_fx_exposure_pct : exposurePcts,
     circuit_breaker_loss_pence : lossThresholds]

\* Variant of GbpToJpy that keeps the records of both directions.
GbpToJpyUnfiltered(conversions) == conversions

\* conversions.filter(c => c.direction === 'GBP_TO_JPY') and its counterpart.
GbpToJpy(conversions) ==
    LET IsGbpToJpy(c) == c.direction = "GBP_TO_JPY"
    IN SelectSeq(conversions, IsGbpToJpy)

JpyToGbp(conversions) ==
    LET IsJpyToGbp(c) == c.direction = "JPY_TO_GBP"
    IN SelectSeq(conversions, IsJpyToGbp)

\* list.reduce((sum, c) => sum + c.gbp_amount, 0), folding from the left.
SumGbpAmount(list) ==
    LET acc[i \in 0..Len(list)] == IF i = 0 THEN 0 ELSE acc[i - 1] + list[i].gbp_amount
    IN acc[Len(list)]

\* list.reduce((s, c) => s + c.jpy_amount, 0), folding from the left.
SumJpyAmount(list) ==
    LET acc[i \in 0..Len(list)] == IF i = 0 THEN 0 ELSE acc[i - 1] + list[i].jpy_amount
    IN acc[Len(list)]

(***************************************************************************)
(* Thermostat engine: src/lib/strategy/thermostat.ts                       *)
(***************************************************************************)
\* Variant of MonthlyCapOf in which HOLD falls through to the normal cap.
MonthlyCapHoldAsNormal(band, settings) ==
    CASE band = "AGGRESSIVE_BUY" -> settings.cap_aggressive_gbp
      [] band = "NORMAL_BUY" -> settings.cap_normal_gbp
      [] band = "HOLD" -> settings.cap_normal_gbp
      [] OTHER -> 0

\* The cap of the band (the switch of calculateThermostat).
MonthlyCapOf(band, settings) ==
    CASE band = "AGGRESSIVE_BUY" -> settings.cap_aggressive_gbp
      [] band = "NORMAL_BUY" -> settings.cap_normal_gbp
      [] OTHER -> 0

\* maxExposure of calculateThermostat.
MaxExposure(settings) ==
    Round(settings.total_gbp_savings_pence * settings.max_fx_exposure_pct, 100)

\* netDeployed of calculateThermostat, over the full record set.
NetDeployed(conversions) ==
    SumGbpAmount(GbpToJpy(conversions)) - SumGbpAmount(JpyToGbp(conversions))

\* Variant of OverExposed with the exclusive comparison of an older revision.
OverExposedStrict(netDeployed, maxExposure) == netDeployed > maxExposure

\* overExposed of calculateThermostat: reaching the limit exactly counts.
OverExposed(netDeployed, maxExposure) == netDeployed >= maxExposure

\* Variant of SuggestedAmount that ignores the exposure headroom.
SuggestedAmountBudgetOnly(remainingBudget, exposureRemaining) == remainingBudget

\* suggestedAmount of calculateThermostat: the tighter of the two headrooms.
SuggestedAmount(remainingBudget, exposureRemaining) ==
    Min(remainingBudget, exposureRemaining)

\* Variant of AtCap with the guard of an older revision: a zero cap is never reached.
AtCapPositiveCap(monthlyCap, remainingBudget) == monthlyCap > 0 /\ remainingBudget = 0

\* atCap of calculateThermostat.
AtCap(monthlyCap, remainingBudget) == remainingBudget = 0

\* Variant of ThisMonthConversions that keeps the month's records of both directions.
ThisMonthConversionsAnyDirection(conversions, month) ==
    LET InMonth(c) == StartsWith(c.date, month)
    IN SelectSeq(conversions, InMonth)

\* thisMonthConversions of calculateThermostat.
ThisMonthConversions(conversions, month) ==
    LET InMonth(c) == StartsWith(c.date, month) /\ c.direction = "GBP_TO_JPY"
    IN SelectSeq(conversions, InMonth)

\* Variant of Suggestion that tests the cap before the exposure.
SuggestionCapFirst(band, overExposed, atCap, suggestedAmount) ==
    IF band = "HOLD"
    THEN "Hold zone - no conversions recommended this month."
    ELSE IF band = "REVERSE"
    THEN "Reverse zone - consider converting JPY back to GBP if needed."
    ELSE IF atCap
    THEN "Monthly cap reached. You've converted {convertedThisMonth} of {monthlyCap} this month."
    ELSE IF overExposed
    THEN "FX exposure at {exposurePct}% - over your {max_fx_exposure_pct}% limit. Hold further conversions."
    ELSE IF suggestedAmount > 0
    THEN "Convert up to {suggestedAmount} more this month ({convertedThisMonth} of {monthlyCap} used)."
    ELSE "No budget remaining for conversions this month."

\* The if / else-if chain that builds the suggestion; the interpolated amounts are
\* kept as placeholders.
Suggestion(band, overExposed, atCap, suggestedAmount) ==
    IF band = "HOLD"
    THEN "Hold zone - no conversions recommended this month."
    ELSE IF band = "REVERSE"
    THEN "Reverse zone - consider converting JPY back to GBP if needed."
    ELSE IF overExposed
    THEN "FX exposure at {exposurePct}% - over your {max_fx_exposure_pct}% limit. Hold further conversions."
    ELSE IF atCap
    THEN "Monthly cap reached. You've converted {convertedThisMonth} of {monthlyCap} this month."
    ELSE IF suggestedAmount > 0
    THEN "Convert up to {suggestedAmount} more this month ({convertedThisMonth} of {monthlyCap} used)."
    ELSE "No budget remaining for conversions this month."

\* calculateThermostat(band, settings, conversions, currentMonth); the month the
\* code defaults to the clock's is always passed.
calculateThermostat(band, settings, conversions, currentMonth) ==
    LET convertedThisMonth == SumGbpAmount(ThisMonthConversions(conversions, currentMonth))
        monthlyCap == MonthlyCapOf(band, settings)
        remainingBudget == Max(0, monthlyCap - convertedThisMonth)
        netDeployed == NetDeployed(conversions)
        maxExposure == MaxExposure(settings)
        exposurePct ==
            IF settings.total_gbp_savings_pence > 0
            THEN Ratio(netDeployed * 100, settings.total_gbp_savings_pence)
            ELSE Whole(0)
        overExposed == OverExposed(netDeployed, maxExposure)
        exposureRemaining == Max(0, maxExposure - netDeployed)
        suggestedAmount == SuggestedAmount(remainingBudget, exposureRemaining)
        atCap == AtCap(monthlyCap, remainingBudget)
        suggestion == Suggestion(band, overExposed, atCap, suggestedAmount)
    IN [band |-> band,
        monthlyCap |-> monthlyCap,
        convertedThisMonth |-> convertedThisMonth,
        remainingBudget |-> remainingBudget,
        suggestedAmount |-> suggestedAmount,
        suggestion |-> suggestion,
        atCap |-> atCap,
        exposurePct |-> exposurePct,
        overExposed |-> overExposed]

\* ISO dates of conversions and the month tokens they are filtered by; "2024-1" is
\* a token that is not zero-padded and is a prefix of both dates.
ThermostatDates ==
    {<<"2","0","2","4","-","0","1","-","1","5">>,
     <<"2","0","2","4","-","1","0","-","0","5">>}

ThermostatMonths ==
    {<<"2","0","2","4","-","0","1">>,
     <<"2","0","2","4","-","1">>}

ThermostatSettings ==
    SettingsRows(1..MaxCap, {0, MaxSavings}, {0, 50, 100}, {1})

ThermostatInputs ==
    [fn : {"calculateThermostat"},
     band : Bands,
     settings : ThermostatSettings,
     conversions : SeqUpTo(ConversionRecords(ThermostatDates, 1..MaxGbp, {1}, {1}),
                           MaxConversions),
     currentMonth : ThermostatMonths]

InitThermostat == input \in ThermostatInputs /\ output = NotCalled /\ db = EmptyDb /\ now = 0

CallCalculateThermostat ==
    /\ input.fn = "calculateThermostat"
    /\ output = NotCalled
    /\ output' = calculateThermostat(input.band, input.settings, input.conversions,
                                     input.currentMonth)
    /\ UNCHANGED <<input, db, now>>

NextThermostat == CallCalculateThermostat

SpecThermostat == InitThermostat /\ [][NextThermostat]_vars

\* Two calls that differ by one record, logged before or after the others.
ThermostatExtraInputs ==
    [fn : {"calculateThermostat with one more record"},
     band : {"NORMAL_BUY", "HOLD"},
     settings : SettingsRows({MaxCap}, {MaxSavings}, {50, 100}, {1}),
     conversions : SeqUpTo(ConversionRecords(ThermostatDates, 1..MaxGbp, {1}, {1}),
                           MaxConversions),
     extra : ConversionRecords(ThermostatDates, 1..MaxGbp, {1}, {1}),
     first : BOOLEAN,
     currentMonth : ThermostatMonths]

InitThermostatExtra ==
    input \in ThermostatExtraInputs /\ output = NotCalled /\ db = EmptyDb /\ now = 0

\* The list with the extra record.
Extended(conversions, extra, first) ==
    IF first THEN <<extra>> \o conversions ELSE Append(conversions, extra)

CallCalculateThermostatExtended ==
    /\ input.fn = "calculateThermostat with one more record"
    /\ output = NotCalled
    /\ output' =
           [given |-> calculateThermostat(input.band, input.settings, input.conversions,
                                          input.currentMonth),
            extended |-> calculateThermostat(input.band, input.settings,
                                             Extended(input.conversions, input.extra,
                                                      input.first),
                                             input.currentMonth)]
    /\ UNCHANGED <<input, db, now>>

NextThermostatExtra == CallCalculateThermostatExtended

SpecThermostatExtra == InitThermostatExtra /\ [][NextThermostatExtra]_vars

(***************************************************************************)
(* Claims about the thermostat.  The quantities the claims name are stated *)
(* here from the arguments of the call, independently of the operators     *)
(* above.                                                                  *)
(***************************************************************************)
\* The total gbp amount of the records of the list in the given direction.
TotalGbpOfClaim(list, direction) ==
    LET RECURSIVE Over(_)
        Over(I) == IF I = {} THEN 0
                   ELSE LET i == CHOOSE j \in I : TRUE
                        IN (IF list[i].direction = direction THEN list[i].gbp_amount ELSE 0)
                               + Over(I \ {i})
    IN Over(DOMAIN list)

\* Net deployed GBP: GBP_TO_JPY gbp amounts minus JPY_TO_GBP gbp amounts.
NetDeployedOfClaim(list) ==
    TotalGbpOfClaim(list, "GBP_TO_JPY") - TotalGbpOfClaim(list, "JPY_TO_GBP")

\* round(n / d), d > 0: the integer m with m - 1/2 <= n / d < m + 1/2.
IsRounded(m, n, d) == d * (2 * m - 1) <= 2 * n /\ 2 * n < d * (2 * m + 1)

RoundedOfClaim(n, d) ==
    LET q == n \div d IN CHOOSE m \in {q, q + 1} : IsRounded(m, n, d)

\* round(total_gbp_savings_pence * max_fx_exposure_pct / 100).
MaxExposureOfClaim(settings) ==
    RoundedOfClaim(settings.total_gbp_savings_pence * settings.max_fx_exposure_pct, 100)

ExposureRemainingOfClaim(settings, list) ==
    LET headroom == MaxExposureOfClaim(settings) - NetDeployedOfClaim(list)
    IN IF headroom > 0 THEN headroom ELSE 0

\* C2: suggestedAmount <= remainingBudget and suggestedAmount <= exposureRemaining,
\* where remainingBudget = max(0, monthlyCap - convertedThisMonth) and
\* exposureRemaining = max(0, maxExposure - netDeployed); suggestedAmount is the
\* smaller of the two and is never negative.
C2_SuggestedWithinBothHeadrooms ==
    Returned("calculateThermostat") =>
        LET budget == output.monthlyCap - output.convertedThisMonth
            exposureRemaining == ExposureRemainingOfClaim(input.settings, input.conversions)
        IN /\ output.remainingBudget = (IF budget > 0 THEN budget ELSE 0)
           /\ output.suggestedAmount <= output.remainingBudget
           /\ output.suggestedAmount <= exposureRemaining
           /\ output.suggestedAmount \in {output.remainingBudget, exposureRemaining}
           /\ output.suggestedAmount >= 0

\* The exposure headroom is the tighter constraint and is what is suggested.
C2_Witness ==
    /\ Returned("calculateThermostat")
    /\ ExposureRemainingOfClaim(input.settings, input.conversions) > 0
    /\ ExposureRemainingOfClaim(input.settings, input.conversions) < output.remainingBudget
    /\ output.suggestedAmount = ExposureRemainingOfClaim(input.settings, input.conversions)

\* C4: overExposed is true exactly when netDeployed >= maxExposure, with
\* maxExposure = round(total_gbp_savings_pence * max_fx_exposure_pct / 100); net
\* deployed GBP exactly equal to the limit counts as over-exposed.
C4_OverExposedInclusive ==
    Returned("calculateThermostat") =>
        (output.overExposed <=>
            NetDeployedOfClaim(input.conversions) >= MaxExposureOfClaim(input.settings))

\* Net deployed GBP equals a positive exposure limit and is reported over-exposed.
C4_Witness ==
    /\ Returned("calculateThermostat")
    /\ MaxExposureOfClaim(input.settings) > 0
    /\ NetDeployedOfClaim(input.conversions) = MaxExposureOfClaim(input.settings)
    /\ output.overExposed

\* C5: for the HOLD and REVERSE bands monthlyCap = 0, remainingBudget = 0 and
\* suggestedAmount = 0, whatever the caps, the conversions and the exposure headroom.
C5_HoldReverseZero ==
    (Returned("calculateThermostat") /\ input.band \in {"HOLD", "REVERSE"}) =>
        /\ output.monthlyCap = 0
        /\ output.remainingBudget = 0
        /\ output.suggestedAmount = 0

\* A HOLD call with positive caps, nothing converted yet and exposure headroom left.
C5_Witness ==
    /\ Returned("calculateThermostat")
    /\ input.band = "HOLD"
    /\ input.settings.cap_normal_gbp > 0
    /\ input.settings.cap_aggressive_gbp > 0
    /\ output.convertedThisMonth = 0
    /\ ExposureRemainingOfClaim(input.settings, input.conversions) > 0
    /\ output.suggestedAmount = 0

\* The total gbp amount of the GBP_TO_JPY records dated in the month.
MonthTotalOfClaim(list, month) ==
    LET InMonth(i) == /\ list[i].direction = "GBP_TO_JPY"
                      /\ Len(list[i].date) >= Len(month)
                      /\ \A k \in 1..Len(month) : list[i].date[k] = month[k]
        RECURSIVE Over(_)
        Over(I) == IF I = {} THEN 0
                   ELSE LET i == CHOOSE j \in I : TRUE
                        IN (IF InMonth(i) THEN list[i].gbp_amount ELSE 0) + Over(I \ {i})
    IN Over(DOMAIN list)

\* The monthly cap of the band: 0 for HOLD and REVERSE.
CapOfClaim(band, settings) ==
    IF band = "AGGRESSIVE_BUY" THEN settings.cap_aggressive_gbp
    ELSE IF band = "NORMAL_BUY" THEN settings.cap_normal_gbp
    ELSE 0

\* C13: atCap is true exactly when remainingBudget = 0, for every band; so atCap is
\* true whenever the month's GBP_TO_JPY total has reached or passed the band's monthly
\* cap, the HOLD and REVERSE bands (whose cap is 0) included.
C13_AtCapIffNoBudgetLeft ==
    Returned("calculateThermostat") =>
        /\ output.atCap <=> (output.remainingBudget = 0)
        /\ (MonthTotalOfClaim(input.conversions, input.currentMonth)
                >= CapOfClaim(input.band, input.settings)) => output.atCap
        /\ input.band \in {"HOLD", "REVERSE"} => output.atCap

\* A HOLD call with positive caps and nothing converted in the month is at its cap.
C13_Witness ==
    /\ Returned("calculateThermostat")
    /\ input.band = "HOLD"
    /\ input.settings.cap_normal_gbp > 0
    /\ MonthTotalOfClaim(input.conversions, input.currentMonth) = 0
    /\ output.monthlyCap = 0
    /\ output.atCap

\* The date starts with the month token.
DatedInMonthOfClaim(date, month) ==
    /\ Len(date) >= Len(month)
    /\ \A k \in 1..Len(month) : date[k] = month[k]

\* C25: convertedThisMonth is the sum of the gbp amounts of exactly the GBP_TO_JPY
\* records whose date starts with the month token, so one more record that is a
\* JPY_TO_GBP record or is dated in another month changes neither convertedThisMonth
\* nor remainingBudget; exposurePct and overExposed come from the net deployed GBP
\* of the records of all months and both directions.
C25_MonthFilterAndFullExposure ==
    Returned("calculateThermostat with one more record") =>
        LET all == Extended(input.conversions, input.extra, input.first)
            savings == input.settings.total_gbp_savings_pence
        IN /\ output.given.convertedThisMonth
                  = MonthTotalOfClaim(input.conversions, input.currentMonth)
           /\ output.extended.convertedThisMonth
                  = MonthTotalOfClaim(all, input.currentMonth)
           /\ (\/ input.extra.direction = "JPY_TO_GBP"
               \/ ~DatedInMonthOfClaim(input.extra.date, input.currentMonth)) =>
                  /\ output.extended.convertedThisMonth = output.given.convertedThisMonth
                  /\ output.extended.remainingBudget = output.given.remainingBudget
           /\ output.extended.overExposed <=>
                  NetDeployedOfClaim(all) >= MaxExposureOfClaim(input.settings)
           /\ savings > 0 =>
                  output.extended.exposurePct.num * savings
                      = NetDeployedOfClaim(all) * 100 * output.extended.exposurePct.den

\* A reversal dated in the month was added to a purchase of the month: the month's
\* total and the budget stayed, the exposure went down.
C25_Witness ==
    /\ Returned("calculateThermostat with one more record")
    /\ input.band = "NORMAL_BUY"
    /\ Len(input.conversions) = 1
    /\ input.conversions[1].direction = "GBP_TO_JPY"
    /\ DatedInMonthOfClaim(input.conversions[1].date, input.currentMonth)
    /\ input.extra.direction = "JPY_TO_GBP"
    /\ DatedInMonthOfClaim(input.extra.date, input.currentMonth)
    /\ output.given.convertedThisMonth > 0
    /\ output.extended.convertedThisMonth = output.given.convertedThisMonth
    /\ output.extended.remainingBudget = output.given.remainingBudget
    /\ output.extended.remainingBudget > 0
    /\ output.extended.exposurePct.num * output.given.exposurePct.den
           < output.given.exposurePct.num * output.extended.exposurePct.den

\* The kinds of suggestion message.
SuggestionKindOfClaim(suggestion) ==
    CASE suggestion = "Hold zone - no conversions recommended this month." -> "hold"
      [] suggestion = "Reverse zone - consider converting JPY back to GBP if needed." ->
             "reverse"
      [] suggestion = "FX exposure at {exposurePct}% - over your {max_fx_exposure_pct}% limit. Hold further conversions." ->
             "over-exposed"
      [] suggestion = "Monthly cap reached. You've converted {convertedThisMonth} of {monthlyCap} this month." ->
             "cap-reached"
      [] suggestion = "Convert up to {suggestedAmount} more this month ({convertedThisMonth} of {monthlyCap} used)." ->
             "convert"
      [] suggestion = "No budget remaining for conversions this month." -> "no-budget"
      [] OTHER -> "unknown"

\* C21: the suggestion is the HOLD message whenever band is HOLD, else the REVERSE
\* message whenever band is REVERSE, else the over-exposed message whenever
\* overExposed, else the cap-reached message whenever atCap, else the 'Convert up to'
\* message whenever suggestedAmount > 0, else the no-budget message: the first
\* condition that holds decides, whatever later conditions hold too.
C21_SuggestionPriority ==
    Returned("calculateThermostat") =>
        SuggestionKindOfClaim(output.suggestion) =
            (IF input.band = "HOLD" THEN "hold"
             ELSE IF input.band = "REVERSE" THEN "reverse"
             ELSE IF output.overExposed THEN "over-exposed"
             ELSE IF output.atCap THEN "cap-reached"
             ELSE IF output.suggestedAmount > 0 THEN "convert"
             ELSE "no-budget")

\* A NORMAL_BUY call that is both over-exposed and at its cap got the over-exposed
\* message.
C21_Witness ==
    /\ Returned("calculateThermostat")
    /\ input.band = "NORMAL_BUY"
    /\ output.overExposed
    /\ output.atCap
    /\ SuggestionKindOfClaim(output.suggestion) = "over-exposed"

\* C30: for settings with positive caps, suggestedAmount > 0 exactly when the band is
\* AGGRESSIVE_BUY or NORMAL_BUY, overExposed is false and atCap is false; hence the
\* generic no-budget message is never selected.
C30_SuggestedAmountPositiveIff ==
    (/\ Returned("calculateThermostat")
     /\ input.settings.cap_aggressive_gbp > 0
     /\ input.settings.cap_normal_gbp > 0) =>
        /\ output.suggestedAmount > 0 <=>
               (/\ input.band \in {"AGGRESSIVE_BUY", "NORMAL_BUY"}
                /\ ~output.overExposed
                /\ ~output.atCap)
        /\ SuggestionKindOfClaim(output.suggestion) # "no-budget"

\* A buying band with budget left whose net deployment has reached a positive
\* exposure limit exactly: over-exposed, nothing suggested, and told so by the
\* over-exposed message.
C30_Witness ==
    /\ Returned("calculateThermostat")
    /\ input.band \in {"AGGRESSIVE_BUY", "NORMAL_BUY"}
    /\ input.settings.cap_aggressive_gbp > 0
    /\ input.settings.cap_normal_gbp > 0
    /\ output.remainingBudget > 0
    /\ NetDeployed(input.conversions) = MaxExposure(input.settings)
    /\ MaxExposure(input.settings) > 0
    /\ output.overExposed
    /\ output.suggestedAmount = 0
    /\ SuggestionKindOfClaim(output.suggestion) = "over-exposed"

(***************************************************************************)
(* Circuit breaker: src/lib/strategy/circuit-breaker.ts                    *)
(***************************************************************************)
Abs(n) == IF n < 0 THEN -n ELSE n

\* Variant of CurrentValuePence guarded by currentRate # 0 instead of currentRate > 0.
CurrentValuePenceUnlessZero(jpyHeld, currentRate) ==
    IF currentRate > 0 THEN RoundQuotientTimes100(jpyHeld, currentRate)
    ELSE IF currentRate < 0 THEN RoundQuotientTimes100(-jpyHeld, -currentRate)
    ELSE 0

\* Variant of CurrentValuePence that truncates downwards instead of rounding.
CurrentValuePenceTruncated(jpyHeld, currentRate) ==
    IF currentRate > 0 THEN (jpyHeld * 100) \div currentRate ELSE 0

\* Value in pence of the yen held at the current rate; 0 when the rate is not positive.
CurrentValuePence(jpyHeld, currentRate) ==
    IF currentRate > 0 THEN RoundQuotientTimes100(jpyHeld, currentRate) ELSE 0

\* Variant of Triggered that needs the loss to exceed the threshold.
TriggeredStrict(loss, threshold) == loss < 0 /\ Abs(loss) > threshold

\* triggered of checkCircuitBreaker.
Triggered(loss, threshold) == loss < 0 /\ Abs(loss) >= threshold

\* Variant of Message that tests triggered before netDeployed = 0.
MessageAlarmFirst(netDeployed, triggered, loss) ==
    IF triggered
    THEN "Circuit breaker triggered! Unrealised loss of {loss} exceeds your {threshold} threshold. Consider pausing conversions."
    ELSE IF netDeployed = 0
    THEN "No conversions to monitor."
    ELSE IF loss < 0
    THEN "Unrealised loss of {loss} ({lossPct}%). Circuit breaker at {threshold}."
    ELSE "Portfolio in profit. Circuit breaker at {threshold} loss threshold."

\* The if / else-if chain that builds the message of checkCircuitBreaker; the
\* interpolated amounts are kept as placeholders.
Message(netDeployed, triggered, loss) ==
    IF netDeployed = 0
    THEN "No conversions to monitor."
    ELSE IF triggered
    THEN "Circuit breaker triggered! Unrealised loss of {loss} exceeds your {threshold} threshold. Consider pausing conversions."
    ELSE IF loss < 0
    THEN "Unrealised loss of {loss} ({lossPct}%). Circuit breaker at {threshold}."
    ELSE "Portfolio in profit. Circuit breaker at {threshold} loss threshold."

checkCircuitBreaker(conversions, currentRate, settings) ==
    LET gbpToJpy == GbpToJpy(conversions)
        jpyToGbp == JpyToGbp(conversions)
        totalGbpOut == SumGbpAmount(gbpToJpy)
        totalGbpBack == SumGbpAmount(jpyToGbp)
        netDeployed == totalGbpOut - totalGbpBack
        jpyHeld == SumJpyAmount(gbpToJpy) - SumJpyAmount(jpyToGbp)
        currentValuePence == CurrentValuePence(jpyHeld, currentRate)
        loss == currentValuePence - netDeployed
        lossPct == IF netDeployed > 0 THEN Ratio(loss * 100, netDeployed) ELSE Whole(0)
        threshold == settings.circuit_breaker_loss_pence
        triggered == Triggered(loss, threshold)
        message == Message(netDeployed, triggered, loss)
    IN [triggered |-> triggered,
        currentLoss |-> loss,
        threshold |-> threshold,
        lossPct |-> lossPct,
        message |-> message]

\* Current rates: multiples of 80 JPY per GBP, among them 0 and a negative one.
\* A yen amount worth 57.5 pence at a rate of 80: (46 / 80) * 100 is just below
\* the half in doubles, and Math.round gives 57.
TieJpy == 46

CurrentRates == {80 * k : k \in -1..MaxRateK}

\* The date of the records of a call that does not read dates.
AnyDate == <<"2","0","2","4","-","0","1","-","0","1">>

CircuitBreakerInputs ==
    [fn : {"checkCircuitBreaker"},
     conversions : SeqUpTo(ConversionRecords({AnyDate}, 1..MaxGbp, {1, MaxJpy, TieJpy},
                                             {80}),
                           MaxConversions),
     currentRate : CurrentRates,
     settings : SettingsRows({1}, {MaxSavings}, {100}, 1..MaxLossThreshold)]

InitCircuitBreaker == input \in CircuitBreakerInputs /\ output = NotCalled /\ db = EmptyDb /\ now = 0

CallCheckCircuitBreaker ==
    /\ input.fn = "checkCircuitBreaker"
    /\ output = NotCalled
    /\ output' = checkCircuitBreaker(input.conversions, input.currentRate, input.settings)
    /\ UNCHANGED <<input, db, now>>

NextCircuitBreaker == CallCheckCircuitBreaker

SpecCircuitBreaker == InitCircuitBreaker /\ [][NextCircuitBreaker]_vars

\* The total jpy amount of the records of the list in the given direction.
TotalJpyOfClaim(list, direction) ==
    LET RECURSIVE Over(_)
        Over(I) == IF I = {} THEN 0
                   ELSE LET i == CHOOSE j \in I : TRUE
                        IN (IF list[i].direction = direction THEN list[i].jpy_amount ELSE 0)
                               + Over(I \ {i})
    IN Over(DOMAIN list)

\* round(jpy / rate * 100) for rate > 0 as the expression evaluates on the numbers of
\* the program: the division, then the product, each rounded to a double, and then
\* Math.round.
ValueOfClaim(jpy, rate) ==
    DoubleRound(DoubleMul(DoubleDivInt(DoubleOfInt(jpy), rate), DoubleOfInt(100)))

\* loss = currentValuePence - netDeployed, stated from the arguments of the call.
LossOfClaim(list, currentRate) ==
    LET jpyHeld == TotalJpyOfClaim(list, "GBP_TO_JPY") - TotalJpyOfClaim(list, "JPY_TO_GBP")
        currentValuePence ==
            IF currentRate > 0 THEN ValueOfClaim(jpyHeld, currentRate) ELSE 0
    IN currentValuePence - NetDeployedOfClaim(list)

\* C3: triggered is true if and only if loss < 0 and |loss| >= circuit_breaker_loss_pence,
\* where loss = currentValuePence - netDeployed is the reported currentLoss.
C3_TriggeredIffLossAtThreshold ==
    Returned("checkCircuitBreaker") =>
        LET loss == LossOfClaim(input.conversions, input.currentRate)
        IN /\ output.currentLoss = loss
           /\ output.triggered <=>
                  (loss < 0 /\ -loss >= input.settings.circuit_breaker_loss_pence)

\* A loss at a positive rate exactly as large as the threshold has tripped the breaker.
C3_Witness ==
    /\ Returned("checkCircuitBreaker")
    /\ input.currentRate > 0
    /\ output.currentLoss = -input.settings.circuit_breaker_loss_pence
    /\ output.triggered

\* C14: when currentRate is 0 or negative checkCircuitBreaker returns a result (it
\* never raises) in which the current value is 0 whatever the yen held, so
\* loss = -netDeployed, and the breaker is triggered exactly when netDeployed > 0 and
\* netDeployed >= circuit_breaker_loss_pence.
C14_NonPositiveRateIsFullLoss ==
    (Returned("checkCircuitBreaker") /\ input.currentRate <= 0) =>
        LET netDeployed == NetDeployedOfClaim(input.conversions)
        IN /\ DOMAIN output = {"triggered", "currentLoss", "threshold", "lossPct", "message"}
           /\ output.currentLoss = -netDeployed
           /\ output.triggered <=>
                  (netDeployed > 0
                      /\ netDeployed >= input.settings.circuit_breaker_loss_pence)

\* At rate 0, with yen held and net deployed GBP exactly at the threshold, the breaker
\* has tripped on a loss of everything deployed.
C14_Witness ==
    /\ Returned("checkCircuitBreaker")
    /\ input.currentRate = 0
    /\ TotalJpyOfClaim(input.conversions, "GBP_TO_JPY")
           > TotalJpyOfClaim(input.conversions, "JPY_TO_GBP")
    /\ NetDeployedOfClaim(input.conversions) = input.settings.circuit_breaker_loss_pence
    /\ output.currentLoss = -NetDeployedOfClaim(input.conversions)
    /\ output.triggered

\* The kinds of circuit-breaker message.
MessageKindOfClaim(message) ==
    CASE message = "No conversions to monitor." -> "nothing"
      [] message = "Circuit breaker triggered! Unrealised loss of {loss} exceeds your {threshold} threshold. Consider pausing conversions." ->
             "alarm"
      [] message = "Unrealised loss of {loss} ({lossPct}%). Circuit breaker at {threshold}." ->
             "loss"
      [] message = "Portfolio in profit. Circuit breaker at {threshold} loss threshold." ->
             "profit"
      [] OTHER -> "unknown"

\* C22: the message is 'No conversions to monitor.' whenever netDeployed = 0, even
\* when triggered is true; else the alarm message whenever triggered; else the
\* informational loss message whenever loss < 0; else the profit message.
C22_MessagePriority ==
    Returned("checkCircuitBreaker") =>
        MessageKindOfClaim(output.message) =
            (IF NetDeployedOfClaim(input.conversions) = 0 THEN "nothing"
             ELSE IF output.triggered THEN "alarm"
             ELSE IF LossOfClaim(input.conversions, input.currentRate) < 0 THEN "loss"
             ELSE "profit")

\* Nothing is deployed net, yet more yen were returned than acquired: the breaker
\* has tripped and the message is still 'No conversions to monitor.'.
C22_Witness ==
    /\ Returned("checkCircuitBreaker")
    /\ Len(input.conversions) > 0
    /\ NetDeployedOfClaim(input.conversions) = 0
    /\ output.triggered
    /\ MessageKindOfClaim(output.message) = "nothing"

(***************************************************************************)
(* Portfolio aggregator: lib/finance/pnl                                   *)
(* (src/lib/finance/__tests__/currency.test.ts, lines 102-167)             *)
(***************************************************************************)
\* Sum of exchange_rate * gbp_amount, folding from the left.
SumWeightedRate(list) ==
    LET acc[i \in 0..Len(list)] ==
            IF i = 0 THEN 0 ELSE acc[i - 1] + list[i].exchange_rate * list[i].gbp_amount
    IN acc[Len(list)]

\* Variant of calculateWeightedAvgRate without its two zero guards (0 / 0 when empty).
calculateWeightedAvgRateNoGuard(conversions) ==
    [num |-> SumWeightedRate(GbpToJpy(conversions)),
     den |-> SumGbpAmount(GbpToJpy(conversions))]

calculateWeightedAvgRate(conversions) ==
    LET gbpToJpy == GbpToJpy(conversions)
        totalWeightedRate == SumWeightedRate(gbpToJpy)
        totalGbpAmount == SumGbpAmount(gbpToJpy)
    IN IF Len(gbpToJpy) = 0 THEN Whole(0)
       ELSE IF totalGbpAmount = 0 THEN Whole(0)
       ELSE Ratio(totalWeightedRate, totalGbpAmount)

\* Variant of CurrentValueGbp that truncates downwards instead of rounding.
CurrentValueGbpFloor(totalJpyAcquired, currentRate) ==
    IF currentRate > 0 THEN (totalJpyAcquired * 100) \div currentRate ELSE 0

\* currentValueGbp of calculatePortfolioSummary.
CurrentValueGbp(totalJpyAcquired, currentRate) ==
    IF currentRate > 0 THEN RoundQuotientTimes100(totalJpyAcquired, currentRate) ELSE 0

calculatePortfolioSummary(conversions, currentRate) ==
    LET gbpToJpy == GbpToJpy(conversions)
        jpyToGbp == JpyToGbp(conversions)
        totalGbpConverted == SumGbpAmount(gbpToJpy)
        gbpReceived == SumGbpAmount(jpyToGbp)
        netGbpDeployed == totalGbpConverted - gbpReceived
        jpyAcquired == SumJpyAmount(gbpToJpy)
        jpyReturned == SumJpyAmount(jpyToGbp)
        totalJpyAcquired == jpyAcquired - jpyReturned
        weightedAvgRate == calculateWeightedAvgRate(conversions)
        currentValueGbp == CurrentValueGbp(totalJpyAcquired, currentRate)
        unrealisedPnlGbp == currentValueGbp - netGbpDeployed
        unrealisedPnlPct ==
            IF netGbpDeployed > 0
            THEN Ratio(unrealisedPnlGbp * 100, netGbpDeployed)
            ELSE Whole(0)
        conversionCount == Len(conversions)
    IN [totalGbpConverted |-> totalGbpConverted,
        netGbpDeployed |-> netGbpDeployed,
        totalJpyAcquired |-> totalJpyAcquired,
        weightedAvgRate |-> weightedAvgRate,
        currentRate |-> currentRate,
        currentValueGbp |-> currentValueGbp,
        unrealisedPnlGbp |-> unrealisedPnlGbp,
        unrealisedPnlPct |-> unrealisedPnlPct,
        conversionCount |-> conversionCount]

PortfolioInputs ==
    [fn : {"calculatePortfolioSummary"},
     conversions : SeqUpTo(ConversionRecords({AnyDate}, 1..MaxGbp, {MaxJpy, TieJpy},
                                             {80, 160}),
                           MaxConversions),
     currentRate : CurrentRates]

InitPortfolio == input \in PortfolioInputs /\ output = NotCalled /\ db = EmptyDb /\ now = 0

CallCalculatePortfolioSummary ==
    /\ input.fn = "calculatePortfolioSummary"
    /\ output = NotCalled
    /\ output' = calculatePortfolioSummary(input.conversions, input.currentRate)
    /\ UNCHANGED <<input, db, now>>

NextPortfolio == CallCalculatePortfolioSummary

SpecPortfolio == InitPortfolio /\ [][NextPortfolio]_vars

\* C6: for every conversion list and every current rate (0 included),
\* unrealisedPnlGbp = currentValueGbp - netGbpDeployed, with
\* currentValueGbp = round(totalJpyAcquired / currentRate * 100) when currentRate > 0
\* and 0 otherwise, the expression being evaluated on doubles as the program's
\* numbers are (46 yen at a rate of 80 are worth 57 pence, not 58).
C6_PnlIsValueMinusDeployed ==
    Returned("calculatePortfolioSummary") =>
        /\ output.unrealisedPnlGbp = output.currentValueGbp - output.netGbpDeployed
        /\ output.currentValueGbp =
               (IF input.currentRate > 0
                THEN ValueOfClaim(output.totalJpyAcquired, input.currentRate)
                ELSE 0)
        /\ output.totalJpyAcquired =
               TotalJpyOfClaim(input.conversions, "GBP_TO_JPY")
                   - TotalJpyOfClaim(input.conversions, "JPY_TO_GBP")

\* A summary at a positive rate whose value in pence was rounded up from a fraction
\* and whose list has a reversal, so that net differs from gross.
C6_Witness ==
    /\ Returned("calculatePortfolioSummary")
    /\ input.currentRate > 0
    /\ output.netGbpDeployed # output.totalGbpConverted
    /\ output.currentValueGbp * input.currentRate > output.totalJpyAcquired * 100
    /\ output.unrealisedPnlGbp < 0

\* C7 as stated: for an empty conversion list and any current rate, every numeric
\* field of the returned object is 0.
C7_EmptyAllNumericFieldsZero ==
    (Returned("calculatePortfolioSummary") /\ input.conversions = <<>>) =>
        /\ output # Null
        /\ output.totalGbpConverted = 0
        /\ output.netGbpDeployed = 0
        /\ output.totalJpyAcquired = 0
        /\ output.weightedAvgRate = Whole(0)
        /\ output.currentRate = 0
        /\ output.currentValueGbp = 0
        /\ output.unrealisedPnlGbp = 0
        /\ output.unrealisedPnlPct = Whole(0)
        /\ output.conversionCount = 0

\* C7 as amended: for an empty conversion list and any current rate, the returned
\* object is a real object whose every computed numeric field is 0; its currentRate
\* field echoes the rate passed in.
C7_EmptyAllComputedFieldsZero ==
    (Returned("calculatePortfolioSummary") /\ input.conversions = <<>>) =>
        /\ output # Null
        /\ output.totalGbpConverted = 0
        /\ output.netGbpDeployed = 0
        /\ output.totalJpyAcquired = 0
        /\ output.weightedAvgRate = Whole(0)
        /\ output.currentRate = input.currentRate
        /\ output.currentValueGbp = 0
        /\ output.unrealisedPnlGbp = 0
        /\ output.unrealisedPnlPct = Whole(0)
        /\ output.conversionCount = 0

\* The summary of an empty list at a positive rate has been returned.
C7_Witness ==
    /\ Returned("calculatePortfolioSummary")
    /\ input.conversions = <<>>
    /\ input.currentRate > 0
    /\ output.currentRate > 0

\* The orders a list of n records can be passed in: the permutations of 1..n.
Orders(n) == {p \in [1..n -> 1..n] : \A i, j \in 1..n : p[i] = p[j] => i = j}

\* The list with its records in the given order.
Reordered(list, order) == [i \in DOMAIN list |-> list[order[i]]]

\* The same conversion list summarised as given and in another order; the summary
\* holds no state, so the two calls are independent and are taken in one step.
PortfolioOrderInputs ==
    UNION {[fn : {"calculatePortfolioSummary reordered"},
            conversions : {list},
            order : Orders(Len(list)),
            currentRate : CurrentRates] :
           list \in SeqUpTo(ConversionRecords({AnyDate}, 1..MaxGbp, {1, MaxJpy}, {80}),
                            MaxConversions)}

InitPortfolioOrder == input \in PortfolioOrderInputs /\ output = NotCalled /\ db = EmptyDb /\ now = 0

CallCalculatePortfolioSummaryReordered ==
    /\ input.fn = "calculatePortfolioSummary reordered"
    /\ output = NotCalled
    /\ output' =
           [given |-> calculatePortfolioSummary(input.conversions, input.currentRate),
            reordered |-> calculatePortfolioSummary(
                              Reordered(input.conversions, input.order), input.currentRate)]
    /\ UNCHANGED <<input, db, now>>

NextPortfolioOrder == CallCalculatePortfolioSummaryReordered

SpecPortfolioOrder == InitPortfolioOrder /\ [][NextPortfolioOrder]_vars

\* C15: for every conversion list, totalGbpConverted is the sum of the GBP_TO_JPY gbp
\* amounts only, netGbpDeployed is that sum minus the sum of the JPY_TO_GBP gbp amounts,
\* totalJpyAcquired is GBP_TO_JPY jpy minus JPY_TO_GBP jpy, and conversionCount is the
\* number of records of both directions; these do not depend on the order of the records.
C15_PortfolioSumsByDirection ==
    Returned("calculatePortfolioSummary reordered") =>
        LET list == input.conversions
            gbpOut == TotalGbpOfClaim(list, "GBP_TO_JPY")
            gbpBack == TotalGbpOfClaim(list, "JPY_TO_GBP")
            jpyIn == TotalJpyOfClaim(list, "GBP_TO_JPY")
            jpyOut == TotalJpyOfClaim(list, "JPY_TO_GBP")
        IN \A summary \in {output.given, output.reordered} :
               /\ summary.totalGbpConverted = gbpOut
               /\ summary.netGbpDeployed = gbpOut - gbpBack
               /\ summary.totalJpyAcquired = jpyIn - jpyOut
               /\ summary.conversionCount = Cardinality(DOMAIN list)

\* A purchase followed by a different reversal has been summarised in both orders:
\* net differs from gross, and both records are counted.
C15_Witness ==
    /\ Returned("calculatePortfolioSummary reordered")
    /\ Len(input.conversions) = 2
    /\ input.conversions[1].direction = "GBP_TO_JPY"
    /\ input.conversions[2].direction = "JPY_TO_GBP"
    /\ input.conversions[1].gbp_amount > input.conversions[2].gbp_amount
    /\ input.order = <<2, 1>>
    /\ output.reordered.totalGbpConverted = input.conversions[1].gbp_amount
    /\ output.reordered.netGbpDeployed > 0
    /\ output.reordered.netGbpDeployed < output.given.totalGbpConverted
    /\ output.given.conversionCount = 2

(***************************************************************************)
(* The three engines on one conversion list, as GET /api/rates,            *)
(* GET /api/thermostat and GET /api/projections call them.                 *)
(***************************************************************************)
EnginesInputs ==
    [fn : {"checkCircuitBreaker, calculatePortfolioSummary, calculateThermostat"},
     conversions : SeqUpTo(ConversionRecords({AnyDate}, 1..MaxGbp, {1, MaxJpy, TieJpy},
                                             {80}),
                           MaxConversions),
     currentRate : CurrentRates,
     band : {"NORMAL_BUY"},
     settings : SettingsRows({MaxCap}, {MaxSavings}, {50}, 1..MaxLossThreshold),
     currentMonth : {SubSeq(AnyDate, 1, 7)}]

InitEngines == input \in EnginesInputs /\ output = NotCalled /\ db = EmptyDb /\ now = 0

CallEngines ==
    /\ input.fn = "checkCircuitBreaker, calculatePortfolioSummary, calculateThermostat"
    /\ output = NotCalled
    /\ output' =
           [circuitBreaker |-> checkCircuitBreaker(input.conversions, input.currentRate,
                                                   input.settings),
            portfolio |-> calculatePortfolioSummary(input.conversions, input.currentRate),
            thermostat |-> calculateThermostat(input.band, input.settings,
                                               input.conversions, input.currentMonth)]
    /\ UNCHANGED <<input, db, now>>

NextEngines == CallEngines

SpecEngines == InitEngines /\ [][NextEngines]_vars

\* Two exact quotients are the same number.
SameRatioOfClaim(a, b) == a.num * b.den = b.num * a.den

\* C26: for one conversion list and current rate, checkCircuitBreaker's currentLoss
\* equals calculatePortfolioSummary's unrealisedPnlGbp and its lossPct equals
\* unrealisedPnlPct; and the net deployed GBP calculateThermostat measures its
\* exposure with (exposurePct of the savings, overExposed against the limit) is the
\* aggregator's netGbpDeployed.
C26_EnginesAgree ==
    Returned("checkCircuitBreaker, calculatePortfolioSummary, calculateThermostat") =>
        LET savings == input.settings.total_gbp_savings_pence
        IN /\ output.circuitBreaker.currentLoss = output.portfolio.unrealisedPnlGbp
           /\ SameRatioOfClaim(output.circuitBreaker.lossPct,
                               output.portfolio.unrealisedPnlPct)
           /\ savings > 0
           /\ output.thermostat.exposurePct.num * savings
                  = output.portfolio.netGbpDeployed * 100 * output.thermostat.exposurePct.den
           /\ output.thermostat.overExposed <=>
                  output.portfolio.netGbpDeployed >= MaxExposureOfClaim(input.settings)

\* A purchase and a smaller reversal at a positive rate at which the yen held are
\* worth less than the net deployed GBP by a rounded amount: the loss and its
\* percentage are the aggregator's.
C26_Witness ==
    /\ Returned("checkCircuitBreaker, calculatePortfolioSummary, calculateThermostat")
    /\ Len(input.conversions) = 2
    /\ input.conversions[1].direction = "GBP_TO_JPY"
    /\ input.conversions[2].direction = "JPY_TO_GBP"
    /\ input.currentRate > 0
    /\ (TotalJpyOfClaim(input.conversions, "GBP_TO_JPY")
            - TotalJpyOfClaim(input.conversions, "JPY_TO_GBP")) * 100 % input.currentRate # 0
    /\ output.portfolio.netGbpDeployed > 0
    /\ output.circuitBreaker.currentLoss = output.portfolio.unrealisedPnlGbp
    /\ output.circuitBreaker.currentLoss < 0
    /\ output.circuitBreaker.lossPct.num < 0

(***************************************************************************)
(* 52-week range: src/lib/rates/history.ts                                 *)
(***************************************************************************)
\* Variant of RangeStart that starts the extrema at 0.
RangeStartZero(history) ==
    [high |-> 0, low |-> 0, highDate |-> history[1].date, lowDate |-> history[1].date]

\* high, low, highDate and lowDate before the scan: those of history[0].
RangeStart(history) ==
    [high |-> history[1].rate,
     low |-> history[1].rate,
     highDate |-> history[1].date,
     lowDate |-> history[1].date]

\* Variant of RangeStep in which an equal rate replaces the recorded one.
RangeStepLastWins(acc, point) ==
    LET afterHigh == IF point.rate >= acc.high
                     THEN [acc EXCEPT !.high = point.rate, !.highDate = point.date]
                     ELSE acc
    IN IF point.rate <= afterHigh.low
       THEN [afterHigh EXCEPT !.low = point.rate, !.lowDate = point.date]
       ELSE afterHigh

\* One iteration of the scan: strict replacement of the high, then of the low.
RangeStep(acc, point) ==
    LET afterHigh == IF point.rate > acc.high
                     THEN [acc EXCEPT !.high = point.rate, !.highDate = point.date]
                     ELSE acc
    IN IF point.rate < afterHigh.low
       THEN [afterHigh EXCEPT !.low = point.rate, !.lowDate = point.date]
       ELSE afterHigh

\* The scan of a non-empty history in list order.
RangeScan(history) ==
    LET acc[i \in 0..Len(history)] ==
            IF i = 0 THEN RangeStart(history) ELSE RangeStep(acc[i - 1], history[i])
    IN acc[Len(history)]

\* Variant of Percentile whose flat-range default is 0.
PercentileFlatZero(currentRate, high, low) ==
    IF high - low > 0 THEN Ratio((currentRate - low) * 100, high - low) ELSE Whole(0)

\* percentile of calculate52WeekRange: 50 when the range is not positive.
Percentile(currentRate, high, low) ==
    IF high - low > 0 THEN Ratio((currentRate - low) * 100, high - low) ELSE Whole(50)

calculate52WeekRange(history, currentRate) ==
    IF Len(history) = 0 THEN Null
    ELSE LET scan == RangeScan(history)
         IN [high |-> scan.high,
             low |-> scan.low,
             highDate |-> scan.highDate,
             lowDate |-> scan.lowDate,
             current |-> currentRate,
             percentile |-> Percentile(currentRate, scan.high, scan.low)]

\* The date of the i-th point of a history, oldest first: one entry per day.
HistoryDate(i) ==
    <<"2","0","2","4","-","0","1","-","0">>
        \o <<<<"1","2","3","4","5","6","7","8","9">>[i]>>

\* Histories as getRateHistory returns them: ordered by date, one point per date.
Histories ==
    {[i \in 1..n |-> [date |-> HistoryDate(i), rate |-> rates[i]]] :
        n \in 0..MaxHistory, rates \in [1..MaxHistory -> 1..MaxHistRate]}

RangeInputs ==
    [fn : {"calculate52WeekRange"},
     history : Histories,
     currentRate : 0..(MaxHistRate + 1)]

InitRange == input \in RangeInputs /\ output = NotCalled /\ db = EmptyDb /\ now = 0

CallCalculate52WeekRange ==
    /\ input.fn = "calculate52WeekRange"
    /\ output = NotCalled
    /\ output' = calculate52WeekRange(input.history, input.currentRate)
    /\ UNCHANGED <<input, db, now>>

NextRange == CallCalculate52WeekRange

SpecRange == InitRange /\ [][NextRange]_vars

\* C8: for every non-empty history, low <= rate <= high for every point, and high
\* and low are each the rate of some point whose date is reported as highDate / lowDate.
C8_RangeBoundsEveryPoint ==
    (Returned("calculate52WeekRange") /\ input.history # <<>>) =>
        /\ output # Null
        /\ \A i \in DOMAIN input.history :
               output.low <= input.history[i].rate /\ input.history[i].rate <= output.high
        /\ \E i \in DOMAIN input.history :
               input.history[i].rate = output.high /\ input.history[i].date = output.highDate
        /\ \E i \in DOMAIN input.history :
               input.history[i].rate = output.low /\ input.history[i].date = output.lowDate

\* A history of three points whose high is the second and whose low is the third.
C8_Witness ==
    /\ Returned("calculate52WeekRange")
    /\ Len(input.history) = 3
    /\ output.highDate = input.history[2].date
    /\ output.lowDate = input.history[3].date
    /\ output.low < input.history[1].rate
    /\ input.history[1].rate < output.high

AllRatesEqual(history) ==
    \A i, j \in DOMAIN history : history[i].rate = history[j].rate

\* C9: null is returned exactly when the history is empty; a non-empty history whose
\* rates are all equal gives a real object with percentile exactly 50 whatever the
\* current rate; otherwise percentile = (current - low) / (high - low) * 100, low and
\* high being the least and the greatest rate of the history.
C9_NullFlatAndPercentile ==
    Returned("calculate52WeekRange") =>
        /\ (output = Null) <=> (input.history = <<>>)
        /\ (input.history # <<>> /\ AllRatesEqual(input.history)) =>
               output.percentile = Whole(50)
        /\ (input.history # <<>> /\ ~AllRatesEqual(input.history)) =>
               LET rates == {input.history[i].rate : i \in DOMAIN input.history}
                   lo == CHOOSE r \in rates : \A q \in rates : r <= q
                   hi == CHOOSE r \in rates : \A q \in rates : r >= q
               IN output.percentile.num * (hi - lo)
                      = (input.currentRate - lo) * 100 * output.percentile.den

\* A flat history of two points, read at a current rate away from its single rate,
\* has given percentile 50.
C9_Witness ==
    /\ Returned("calculate52WeekRange")
    /\ Len(input.history) = 2
    /\ AllRatesEqual(input.history)
    /\ input.currentRate # input.history[1].rate
    /\ output.percentile = Whole(50)

\* The first position of the list whose rate is the given one.
FirstWithRateOfClaim(history, rate) ==
    CHOOSE i \in DOMAIN history :
        /\ history[i].rate = rate
        /\ \A j \in 1..(i - 1) : history[j].rate # rate

\* C23: when several points share the greatest (or the least) rate, highDate
\* (lowDate) is the date of the first of them in list order: a later equal rate
\* never overwrites the recorded date.
C23_FirstOccurrenceWinsTies ==
    (Returned("calculate52WeekRange") /\ input.history # <<>>) =>
        LET rates == {input.history[i].rate : i \in DOMAIN input.history}
            lo == CHOOSE r \in rates : \A q \in rates : r <= q
            hi == CHOOSE r \in rates : \A q \in rates : r >= q
        IN /\ output.highDate = input.history[FirstWithRateOfClaim(input.history, hi)].date
           /\ output.lowDate = input.history[FirstWithRateOfClaim(input.history, lo)].date

\* Three points: the greatest rate at the second and the third, the least at the
\* first only; the second point's date is reported for the high.
C23_Witness ==
    /\ Returned("calculate52WeekRange")
    /\ Len(input.history) = 3
    /\ input.history[1].rate < input.history[2].rate
    /\ input.history[2].rate = input.history[3].rate
    /\ input.history[2].date # input.history[3].date
    /\ output.highDate = input.history[2].date
    /\ output.lowDate = input.history[1].date

\* C24: for every non-empty history and every current rate the percentile lies
\* between 0 and 100.
C24_PercentileWithinRange ==
    (Returned("calculate52WeekRange") /\ input.history # <<>>) =>
        /\ output.percentile.num >= 0
        /\ output.percentile.num <= 100 * output.percentile.den

(***************************************************************************)
(* NISA projection: src/lib/strategy/nisa.ts                               *)
(*                                                                         *)
(* The projection compounds in doubles, month by month; the model does the *)
(* same arithmetic, rounding after every operation as the code does.       *)
(***************************************************************************)
MonthsPerYear == 12

\* annualReturnPct / 100 / 12: two divisions in doubles.
MonthlyRate(annualReturnPct) ==
    DoubleDivInt(DoubleDivInt(DoubleOfInt(annualReturnPct), 100), MonthsPerYear)

\* Variant of ContributedAfter that adds the contribution once per year.
ContributedAfterYearly(monthlyJpy, months) == (months \div MonthsPerYear) * monthlyJpy

\* totalContributed after the given number of iterations of the inner loop.
ContributedAfter(monthlyJpy, months) ==
    LET acc[k \in 0..months] == IF k = 0 THEN 0 ELSE acc[k - 1] + monthlyJpy
    IN acc[months]

\* Variant of ValueAfter that applies the growth and forgets the contribution.
ValueAfterGrowthOnly(totalValue, monthlyJpy, monthlyRate, months) ==
    LET factor == DoubleAdd(DoubleOfInt(1), monthlyRate)
        Step(value) == DoubleMul(value, factor)
        RECURSIVE Over(_, _)
        Over(value, n) ==
            IF n = 0 THEN value
            ELSE IF n = 1 THEN Step(value)
            ELSE CHOOSE after \in {Over(half, n - n \div 2) :
                                       half \in {Over(value, n \div 2)}} : TRUE
    IN Over(totalValue, months)

\* totalValue after the given number of further iterations of the inner loop:
\* totalValue * (1 + monthlyRate) + monthlyJpy, each operation a double's.  The
\* iterations are taken in two halves, the value between them bound as a value,
\* which keeps the evaluation of long projections shallow.
ValueAfter(totalValue, monthlyJpy, monthlyRate, months) ==
    LET factor == DoubleAdd(DoubleOfInt(1), monthlyRate)
        Step(value) == DoubleAdd(DoubleMul(value, factor), DoubleOfInt(monthlyJpy))
        RECURSIVE Over(_, _)
        Over(value, n) ==
            IF n = 0 THEN value
            ELSE IF n = 1 THEN Step(value)
            ELSE CHOOSE after \in {Over(half, n - n \div 2) :
                                       half \in {Over(value, n \div 2)}} : TRUE
    IN Over(totalValue, months)

\* calculateNisaProjection.  YearEndValues is totalValue at the end of each pass of
\* the outer loop, years 1..years, every year starting from the value the year before
\* left; the snapshots and totals are read from those values.  totalValue -
\* totalContributed is the sum with the negated integer, which is the same double.
calculateNisaProjection(monthlyJpy, annualReturnPct, years) ==
    LET Last(values) == IF values = <<>> THEN DoubleOfInt(0) ELSE values[Len(values)]
        RECURSIVE YearEndValues(_, _)
        YearEndValues(monthlyRate, y) ==
            IF y <= 0 THEN <<>>
            ELSE CHOOSE values \in
                     {Append(before, ValueAfter(Last(before), monthlyJpy, monthlyRate,
                                                MonthsPerYear)) :
                          before \in {YearEndValues(monthlyRate, y - 1)}} : TRUE
        Contributed(y) == ContributedAfter(monthlyJpy, MonthsPerYear * y)
        NisaProjectionOf(values) ==
            LET Value(y) == IF y = 0 THEN DoubleOfInt(0) ELSE values[y]
                Growth(y) == DoubleRound(DoubleAdd(Value(y), DoubleOfInt(-Contributed(y))))
                projectionYears ==
                    [y \in 1..years |->
                        [year |-> y,
                         contributed |-> Contributed(y),
                         growth |-> Growth(y),
                         value |-> DoubleRound(Value(y))]]
                totalContributed == Contributed(Max(years, 0))
                totalGrowth == Growth(Max(years, 0))
                growthPct ==
                    IF totalContributed > 0
                    THEN Ratio(totalGrowth * 100, totalContributed)
                    ELSE Whole(0)
            IN [years |-> projectionYears,
                totalContributed |-> totalContributed,
                totalValue |-> DoubleRound(Value(Max(years, 0))),
                totalGrowth |-> totalGrowth,
                growthPct |-> growthPct]
    IN CHOOSE projection \in
           {NisaProjectionOf(values) :
                values \in {YearEndValues(monthlyRate, years) :
                                monthlyRate \in {MonthlyRate(annualReturnPct)}}} : TRUE

\* Annual returns: the default of the settings and its negative, none, and the total
\* loss of -100% a month.
NisaReturns == {-1200, -5, 0, 5}

NisaInputs ==
    [fn : {"calculateNisaProjection"},
     monthlyJpy : 0..MaxMonthlyJpy,
     annualReturnPct : NisaReturns,
     years : 0..MaxYears]

InitNisa == input \in NisaInputs /\ output = NotCalled /\ db = EmptyDb /\ now = 0

CallCalculateNisaProjection ==
    /\ input.fn = "calculateNisaProjection"
    /\ output = NotCalled
    /\ output' = calculateNisaProjection(input.monthlyJpy, input.annualReturnPct,
                                         input.years)
    /\ UNCHANGED <<input, db, now>>

NextNisa == CallCalculateNisaProjection

SpecNisa == InitNisa /\ [][NextNisa]_vars

\* C10: for a positive monthly contribution and a year count N >= 1 the projection has
\* exactly N yearly snapshots, year y has contributed = 12 * y * monthly contribution,
\* and contributed is strictly increasing year over year.
C10_ContributedStrictlyIncreasing ==
    (Returned("calculateNisaProjection") /\ input.monthlyJpy > 0 /\ input.years >= 1) =>
        /\ Len(output.years) = input.years
        /\ \A y \in 1..input.years :
               /\ output.years[y].year = y
               /\ output.years[y].contributed = 12 * y * input.monthlyJpy
        /\ \A y \in 2..input.years :
               output.years[y].contributed > output.years[y - 1].contributed

\* A projection over at least two years at a non-zero return whose last snapshot has
\* contributed more than the first.
C10_Witness ==
    /\ Returned("calculateNisaProjection")
    /\ input.monthlyJpy > 0
    /\ input.years >= 2
    /\ input.annualReturnPct # 0
    /\ output.years[input.years].contributed > output.years[1].contributed

\* C11: with annualReturnPct = 0, for every monthly contribution and year count,
\* totalValue = totalContributed exactly, totalGrowth = 0, and every yearly snapshot
\* has value = contributed and growth = 0.
C11_ZeroReturnValueIsContributed ==
    (Returned("calculateNisaProjection") /\ input.annualReturnPct = 0) =>
        /\ output.totalValue = output.totalContributed
        /\ output.totalGrowth = 0
        /\ \A y \in DOMAIN output.years :
               /\ output.years[y].value = output.years[y].contributed
               /\ output.years[y].growth = 0

\* A projection at 0% over at least two years of a positive contribution, whose
\* value is the positive amount contributed.
C11_Witness ==
    /\ Returned("calculateNisaProjection")
    /\ input.annualReturnPct = 0
    /\ input.monthlyJpy > 0
    /\ input.years >= 2
    /\ output.totalValue > 0
    /\ output.totalValue = output.totalContributed
    /\ output.years[2].value = output.years[2].contributed

(***************************************************************************)
(* Settings validator: src/lib/validators/index.ts                         *)
(***************************************************************************)
Digits == {"0", "1", "2", "3", "4", "5", "6", "7", "8", "9"}

\* The regular expression /^\d{4}-\d{2}-\d{2}$/ on a character sequence.
IsIsoDate(chars) ==
    /\ Len(chars) = 10
    /\ \A i \in 1..10 : IF i \in {5, 8} THEN chars[i] = "-" ELSE chars[i] \in Digits

\* z.string().regex(...).nullable().optional()
LastBandReviewValid(v) ==
    \/ v = Undefined
    \/ v = Null
    \/ ("text" \in DOMAIN v /\ IsIsoDate(v.text))

\* The field checks of the z.object of settingsSchema; the bodies of the model
\* carry numbers of the right type (integers) in every numeric field.
SettingsFieldsValid(body) ==
    /\ body.aggressive_above > 0
    /\ body.normal_above > 0
    /\ body.hold_above > 0
    /\ body.cap_aggressive_gbp > 0
    /\ body.cap_normal_gbp > 0
    /\ body.total_gbp_savings_pence > 0
    /\ body.max_fx_exposure_pct >= 0 /\ body.max_fx_exposure_pct <= 100
    /\ body.monthly_jpy_expenses >= 0
    /\ body.monthly_jpy_salary_net >= 0
    /\ body.nisa_monthly_jpy >= 0
    /\ body.nisa_return_pct >= 0 /\ body.nisa_return_pct <= 100
    /\ body.circuit_breaker_loss_pence > 0
    /\ body.gbp_safety_net_months >= 1
    /\ body.scenario_best_rate > 0
    /\ body.scenario_base_rate > 0
    /\ body.scenario_worst_rate > 0
    /\ body.review_interval_days >= 1
    /\ LastBandReviewValid(body.last_band_review)

\* Variant of HoldBelowNormal that lets hold_above equal normal_above.
HoldBelowNormalInclusive(data) == data.hold_above <= data.normal_above

\* The first refinement of settingsSchema.
HoldBelowNormal(data) == data.hold_above < data.normal_above

\* The second refinement of settingsSchema.
NormalNotAboveAggressive(data) == data.normal_above <= data.aggressive_above

\* settingsSchema.safeParse(body).success
settingsSchema(body) ==
    /\ SettingsFieldsValid(body)
    /\ HoldBelowNormal(body)
    /\ NormalNotAboveAggressive(body)

(***************************************************************************)
(* Settings endpoint: GET and PUT /api/settings (src/unnamed/part_007),    *)
(* and the seed script.                                                    *)
(***************************************************************************)
SETTINGS_DEFAULTS ==
    [id |-> 1,
     aggressive_above |-> 200,
     normal_above |-> 190,
     hold_above |-> 175,
     cap_aggressive_gbp |-> 200000,
     cap_normal_gbp |-> 100000,
     total_gbp_savings_pence |-> 5000000,
     max_fx_exposure_pct |-> 80,
     monthly_jpy_expenses |-> 250000,
     monthly_jpy_salary_net |-> 300000,
     nisa_monthly_jpy |-> 100000,
     nisa_return_pct |-> 5,
     circuit_breaker_loss_pence |-> 500000,
     gbp_safety_net_months |-> 6,
     scenario_best_rate |-> 210,
     scenario_base_rate |-> 190,
     scenario_worst_rate |-> 170,
     review_interval_days |-> 90]

\* The defaults of the columns of the settings table (the schema).
SettingsColumnDefaults(at) ==
    [id |-> 1,
     aggressive_above |-> 200,
     normal_above |-> 190,
     hold_above |-> 175,
     cap_aggressive_gbp |-> 200000,
     cap_normal_gbp |-> 100000,
     total_gbp_savings_pence |-> 5000000,
     max_fx_exposure_pct |-> 80,
     monthly_jpy_expenses |-> 250000,
     monthly_jpy_salary_net |-> 300000,
     nisa_monthly_jpy |-> 100000,
     nisa_return_pct |-> 5,
     circuit_breaker_loss_pence |-> 500000,
     gbp_safety_net_months |-> 6,
     scenario_best_rate |-> 210,
     scenario_base_rate |-> 190,
     scenario_worst_rate |-> 170,
     last_band_review |-> Null,
     review_interval_days |-> 90,
     updated_at |-> at]

\* The row db.insert(settings).values(values) stores: a column the values do not
\* name takes its default.
InsertedSettings(values, at) ==
    [column \in DOMAIN SettingsColumnDefaults(at) |->
        IF column \in DOMAIN values THEN values[column]
        ELSE SettingsColumnDefaults(at)[column]]

\* The columns the PUT handler names in .set({...}), updated_at apart.
ColumnsSet ==
    {"aggressive_above", "normal_above", "hold_above", "cap_aggressive_gbp",
     "cap_normal_gbp", "total_gbp_savings_pence", "max_fx_exposure_pct",
     "monthly_jpy_expenses", "monthly_jpy_salary_net", "nisa_monthly_jpy",
     "nisa_return_pct", "circuit_breaker_loss_pence", "gbp_safety_net_months",
     "scenario_best_rate", "scenario_base_rate", "scenario_worst_rate",
     "review_interval_days"}

\* One row after .set({...}): the named columns from the parsed data, updated_at
\* from the clock, every other column as it was.
SetColumns(row, data, at) ==
    [column \in DOMAIN row |->
        IF column \in ColumnsSet THEN data[column]
        ELSE IF column = "updated_at" THEN at
        ELSE row[column]]

HasId1(row) == row.id = 1

\* Variant of UpdateSettings that inserts the row when the table has none.
UpdateOrInsertSettings(table, data, at) ==
    IF SelectSeq(table, HasId1) = <<>>
    THEN Append(table, SetColumns(SettingsColumnDefaults(at), data, at))
    ELSE [i \in DOMAIN table |->
             IF table[i].id = 1 THEN SetColumns(table[i], data, at) ELSE table[i]]

\* db.update(settings).set({...}).where(eq(settings.id, 1)): the table afterwards.
UpdateSettings(table, data, at) ==
    [i \in DOMAIN table |->
        IF table[i].id = 1 THEN SetColumns(table[i], data, at) ELSE table[i]]

\* The server has started on the database the schema creates; no request yet.
InitServer ==
    /\ input = [fn |-> "start"]
    /\ output = NotCalled
    /\ db = EmptyDb
    /\ now = 0

\* Time passes: new Date() and datetime('now') read a later clock.
Tick ==
    /\ now < MaxTime
    /\ now' = now + 1
    /\ UNCHANGED <<input, output, db>>

\* The seed script: inserts the row { id: 1 } when the table is empty.
Seed ==
    /\ input' = [fn |-> "seed"]
    /\ IF Len(db.settings) = 0
       THEN /\ db' = [db EXCEPT !.settings = <<InsertedSettings([id |-> 1], now)>>]
            /\ output' = [log |-> "Default settings inserted."]
       ELSE /\ db' = db
            /\ output' = [log |-> "Settings already exist, skipping seed."]
    /\ UNCHANGED now

\* GET /api/settings: the first row, created from SETTINGS_DEFAULTS when there is none.
GetSettings ==
    /\ input' = [fn |-> "GET /api/settings"]
    /\ IF Len(db.settings) > 0
       THEN /\ db' = db
            /\ output' = [status |-> 200, body |-> db.settings[1]]
       ELSE LET inserted == InsertedSettings(SETTINGS_DEFAULTS, now)
            IN /\ db' = [db EXCEPT !.settings = <<inserted>>]
               /\ output' = [status |-> 200, body |-> inserted]
    /\ UNCHANGED now

\* Dates a client submits as last_band_review: one in the format, one not.
ReviewDates ==
    {<<"2","0","2","6","-","0","2","-","2","7">>,
     <<"2","7","/","0","2","/","2","0","2","6">>}

\* A JSON body that repeats the defaults and carries no last_band_review.
DefaultsBody ==
    [field \in ColumnsSet \cup {"last_band_review"} |->
        IF field = "last_band_review" THEN Undefined ELSE SETTINGS_DEFAULTS[field]]

\* JSON bodies of PUT /api/settings: bodies whose thresholds vary (0 and unordered
\* triples included), and bodies whose cap and last_band_review vary.
SettingsBodies ==
    {[DefaultsBody EXCEPT !.aggressive_above = a, !.normal_above = n, !.hold_above = h,
                          !.cap_normal_gbp = MaxCap] :
        a \in 0..MaxSettingThreshold, n \in 0..MaxSettingThreshold,
        h \in 0..MaxSettingThreshold}
    \cup
    {[DefaultsBody EXCEPT !.cap_aggressive_gbp = c, !.last_band_review = r] :
        c \in {0, MaxCap}, r \in {Undefined, Null} \cup {Text(d) : d \in ReviewDates}}

\* PUT /api/settings: 500 with the error's message when request.json() throws, 400 on
\* a body the schema rejects, 404 when no row has id 1.  A request carries a JSON
\* body, or its payload is empty, which request.json() cannot parse.
PutSettings ==
    \E request \in {[fn |-> "PUT /api/settings", body |-> body] : body \in SettingsBodies}
                        \cup {[fn |-> "PUT /api/settings", text |-> <<>>]} :
        /\ input' = request
        /\ IF "body" \notin DOMAIN request
           THEN /\ db' = db
                /\ output' = [status |-> 500,
                              body |-> [error |-> "Unexpected end of JSON input"]]
           ELSE IF ~settingsSchema(request.body)
           THEN /\ db' = db
                /\ output' = [status |-> 400, body |-> [errors |-> "issues"]]
           ELSE LET table == UpdateSettings(db.settings, request.body, now)
                    updated == SelectSeq(table, HasId1)
                IN IF updated = <<>>
                   THEN /\ db' = db
                        /\ output' =
                               [status |-> 404,
                                body |-> [error |-> "Settings not found. Run GET /api/settings first to initialize."]]
                   ELSE /\ db' = [db EXCEPT !.settings = table]
                        /\ output' = [status |-> 200, body |-> updated[1]]
        /\ UNCHANGED now

NextSettings ==
    \/ Seed
    \/ GetSettings
    \/ PutSettings
    \/ Tick

SpecSettings == InitServer /\ [][NextSettings]_vars

\* The step handles a request with the given name (the clock stands still in it).
Handles(fn) == input'.fn = fn /\ now' = now

\* hold_above < normal_above <= aggressive_above, all three positive.
ThresholdsOrderedOfClaim(row) ==
    /\ row.hold_above > 0
    /\ row.normal_above > 0
    /\ row.aggressive_above > 0
    /\ row.hold_above < row.normal_above
    /\ row.normal_above <= row.aggressive_above

\* C16: after any sequence of settings GET (default on first read) and PUT requests
\* the stored settings row satisfies hold_above < normal_above <= aggressive_above with
\* all three positive; a PUT with hold_above >= normal_above or
\* normal_above > aggressive_above is rejected with status 400 and leaves the stored
\* row unchanged.
C16_StoredThresholdsOrdered ==
    /\ [](\A i \in DOMAIN db.settings : ThresholdsOrderedOfClaim(db.settings[i]))
    /\ [][(/\ Handles("PUT /api/settings")
           /\ "body" \in DOMAIN input'
           /\ \/ input'.body.hold_above >= input'.body.normal_above
              \/ input'.body.normal_above > input'.body.aggressive_above)
              => (output'.status = 400 /\ db' = db)]_vars

\* A PUT whose positive hold_above equals its normal_above has been answered 400 while
\* the table holds a row that an earlier PUT had changed.
C16_Witness ==
    /\ Returned("PUT /api/settings")
    /\ "body" \in DOMAIN input
    /\ input.body.hold_above > 0
    /\ input.body.hold_above = input.body.normal_above
    /\ input.body.normal_above <= input.body.aggressive_above
    /\ output.status = 400
    /\ Len(db.settings) = 1
    /\ db.settings[1].aggressive_above # SETTINGS_DEFAULTS.aggressive_above

\* The row a first read creates: the documented defaults, no review date.
DefaultRowOfClaim(row) ==
    /\ row.id = 1
    /\ \A column \in DOMAIN SETTINGS_DEFAULTS : row[column] = SETTINGS_DEFAULTS[column]
    /\ row.last_band_review = Null

\* What C17 says of the table and of every step but the PUT on an empty table.
SingleRowLifecycleOfClaim ==
    /\ [](Len(db.settings) <= 1 /\ \A i \in DOMAIN db.settings : db.settings[i].id = 1)
    /\ [][/\ Len(db'.settings) >= Len(db.settings)
          /\ (Handles("GET /api/settings") /\ db.settings = <<>>) =>
                 /\ Len(db'.settings) = 1
                 /\ DefaultRowOfClaim(db'.settings[1])
                 /\ output'.body = db'.settings[1]
          /\ (Handles("GET /api/settings") /\ db.settings # <<>>) =>
                 /\ db' = db
                 /\ output'.body = db.settings[1]]_vars

\* C17 as stated: the settings table holds at most one row and it has id 1; the first
\* GET on an empty table creates the row with the default values, later GETs return it
\* without changing it, no operation deletes it, and a PUT issued while no row exists
\* returns 404 and creates nothing.
C17_PutOnEmptyTableIs404 ==
    /\ SingleRowLifecycleOfClaim
    /\ [][(Handles("PUT /api/settings") /\ db.settings = <<>>)
              => (output'.status = 404 /\ db' = db)]_vars

\* A review date is absent, null or ten characters shaped YYYY-MM-DD.
ReviewDateAcceptableOfClaim(v) ==
    v \in {Undefined, Null} \/
        LET chars == v.text
        IN /\ Len(chars) = 10
           /\ chars[5] = "-" /\ chars[8] = "-"
           /\ \A i \in {1, 2, 3, 4, 6, 7, 9, 10} : chars[i] \in Digits

\* The body passes validation: ordered positive thresholds, positive caps, an
\* acceptable review date (the other fields of the model's bodies are the defaults).
PassesValidationOfClaim(body) ==
    /\ ThresholdsOrderedOfClaim(body)
    /\ body.cap_aggressive_gbp > 0
    /\ body.cap_normal_gbp > 0
    /\ ReviewDateAcceptableOfClaim(body.last_band_review)

\* C17 as amended: as stated, except that a PUT issued while no row exists returns 500
\* when its body is missing or not JSON, 400 when its JSON body fails validation and
\* 404 otherwise; in every case it creates nothing.
C17_PutOnEmptyTableCreatesNothing ==
    /\ SingleRowLifecycleOfClaim
    /\ [][(Handles("PUT /api/settings") /\ db.settings = <<>>)
              => /\ db' = db
                 /\ output'.status =
                        (IF "body" \notin DOMAIN input' THEN 500
                         ELSE IF PassesValidationOfClaim(input'.body) THEN 404
                         ELSE 400)]_vars

\* A PUT with ordered positive thresholds has been answered 404 on an empty table.
C17_Witness ==
    /\ Returned("PUT /api/settings")
    /\ "body" \in DOMAIN input
    /\ ThresholdsOrderedOfClaim(input.body)
    /\ output.status = 404
    /\ db.settings = <<>>

\* C18: a successful settings PUT replaces the stored settings wholesale: afterwards
\* every validated field of the stored row, last_band_review included, equals the
\* value submitted in the request.
C18_PutReplacesEveryValidatedField ==
    (Returned("PUT /api/settings") /\ output.status = 200) =>
        /\ Len(db.settings) = 1
        /\ \A field \in ColumnsSet : db.settings[1][field] = input.body[field]
        /\ input.body.last_band_review # Undefined =>
               db.settings[1].last_band_review = input.body.last_band_review

(***************************************************************************)
(* Rate cache: lib/rates/cache (src/lib/rates/history.ts, lines 66-134)    *)
(* and the live fetch, src/lib/rates/frankfurter.ts.                       *)
(***************************************************************************)
\* a < b in the order SQLite sorts text in: the first differing character decides,
\* a proper prefix comes first.  CharOrder holds the characters of an ISO date in
\* their binary order.
TextLess(a, b) ==
    LET CharOrder == <<"-", "0", "1", "2", "3", "4", "5", "6", "7", "8", "9">>
        CharCode(c) == CHOOSE k \in DOMAIN CharOrder : CharOrder[k] = c
    IN
    \E k \in 1..(Min(Len(a), Len(b)) + 1) :
        /\ \A j \in 1..(k - 1) : a[j] = b[j]
        /\ IF k > Len(a) THEN k <= Len(b)
           ELSE k <= Len(b) /\ CharCode(a[k]) < CharCode(b[k])

\* The RateInfo made from a row of rate_history.
RateInfoOf(row) ==
    [rate |-> row.rate,
     date |-> row.date,
     source |-> row.source,
     isStale |-> FALSE,
     fetchedAt |-> row.fetched_at]

\* Variant of getLatestCachedRate that orders by date ascending.
getEarliestCachedRate(table) ==
    IF table = {} THEN Null
    ELSE RateInfoOf(CHOOSE row \in table :
                        \A other \in table : other = row \/ TextLess(row.date, other.date))

\* getLatestCachedRate(db): orderBy(desc(rateHistory.date)).limit(1); date is the
\* primary key, so the first row is the only one with the greatest date.
getLatestCachedRate(table) ==
    IF table = {} THEN Null
    ELSE RateInfoOf(CHOOSE row \in table :
                        \A other \in table : other = row \/ TextLess(other.date, row.date))

\* cacheRate(db, rateInfo): insert, or update the row of the same date.
cacheRate(table, rateInfo) ==
    {row \in table : row.date # rateInfo.date}
        \cup {[date |-> rateInfo.date,
               rate |-> rateInfo.rate,
               source |-> rateInfo.source,
               fetched_at |-> rateInfo.fetchedAt]}

\* fetchCurrentRate() threw (network error or a response that is not ok).
FetchFailed == [failed |-> TRUE]

\* Dates the rate service stamps its rates with.
RateDates ==
    {<<"2","0","2","4","-","0","1","-","0","9">>,
     <<"2","0","2","4","-","0","1","-","1","0">>}

\* The local day of the clock, a Wednesday; the clock of the model counts the
\* seconds of that day.
ClockDate == <<"2","0","2","4","-","0","1","-","1","0">>

\* Rates the rate service answers with: below the default hold threshold and above
\* the default aggressive threshold.
LiveRates == {160, 400}

\* What fetchCurrentRate() does: it throws, or resolves to a RateInfo, stale when
\* its date is not the weekday of the clock.  fetchedAt, the ISO text of the clock to
\* the millisecond, is kept as one token: nothing reads it.
FetchOutcomes ==
    {FetchFailed}
        \cup {[rate |-> rate,
               date |-> date,
               source |-> "frankfurter",
               isStale |-> (date # ClockDate),
               fetchedAt |-> "new Date().toISOString()"] :
                  rate \in LiveRates, date \in RateDates}

\* The first lines of the three rate endpoints: the fetched rate, cached, or the
\* latest cached rate with the fallback flag raised.
ResolveRate(table, fetched) ==
    IF fetched = FetchFailed
    THEN [rateInfo |-> getLatestCachedRate(table), fallback |-> TRUE, table |-> table]
    ELSE [rateInfo |-> fetched, fallback |-> FALSE, table |-> cacheRate(table, fetched)]

(***************************************************************************)
(* Alerts: lib/alerts (src/lib/strategy/circuit-breaker.ts, lines 58-171)  *)
(***************************************************************************)
\* A nullable real column holding a number, and a nullable text column holding a band.
Number(n) == [number |-> n]

BandName(band) == [band |-> band]

\* createAlert(type, message, rate, band): the table with the row appended; ids are
\* AUTOINCREMENT and no alert is ever deleted, created_at is datetime('now').
createAlert(table, type, message, rate, band, at) ==
    Append(table,
           [id |-> Len(table) + 1,
            type |-> type,
            message |-> message,
            rate |-> rate,
            band |-> band,
            acknowledged |-> 0,
            created_at |-> at])

\* getUnacknowledgedAlerts(): the rows with acknowledged = 0 (their order, by
\* created_at descending, is not kept).
getUnacknowledgedAlerts(table) ==
    {table[i] : i \in {j \in DOMAIN table : table[j].acknowledged = 0}}

\* Variant of acknowledgeAlert without its where clause.
acknowledgeAlertEverywhere(table, id) ==
    [i \in DOMAIN table |-> [table[i] EXCEPT !.acknowledged = 1]]

\* acknowledgeAlert(id)
acknowledgeAlert(table, id) ==
    [i \in DOMAIN table |->
        IF table[i].id = id THEN [table[i] EXCEPT !.acknowledged = 1] ELSE table[i]]

\* acknowledgeAllAlerts()
acknowledgeAllAlerts(table) ==
    [i \in DOMAIN table |->
        IF table[i].acknowledged = 0 THEN [table[i] EXCEPT !.acknowledged = 1]
        ELSE table[i]]

\* The rows .where(eq(alerts.type, type)).orderBy(desc(alerts.created_at)).limit(1)
\* can return: created_at has a resolution of one second, and among the rows of the
\* greatest created_at SQL leaves the first one open.  {Null} when there is no row.
LatestOfType(table, type) ==
    LET rows == {table[i] : i \in {j \in DOMAIN table : table[j].type = type}}
    IN IF rows = {} THEN {Null}
       ELSE {row \in rows : \A other \in rows : other.created_at <= row.created_at}

BandChangeMessage(currentBand) ==
    CASE currentBand = "AGGRESSIVE_BUY" -> "Band changed to Aggressive Buy at rate {currentRate}"
      [] currentBand = "NORMAL_BUY" -> "Band changed to Normal Buy at rate {currentRate}"
      [] currentBand = "HOLD" -> "Band changed to Hold at rate {currentRate}"
      [] OTHER -> "Band changed to Reverse Zone at rate {currentRate}"

\* checkAndCreateBandChangeAlert(currentBand, currentRate), lastBandAlert being the row
\* its query returned (Null for none): the alerts table afterwards.
checkAndCreateBandChangeAlert(table, lastBandAlert, currentBand, currentRate, at) ==
    IF lastBandAlert # Null /\ lastBandAlert.band = BandName(currentBand)
    THEN table
    ELSE createAlert(table, "band_change", BandChangeMessage(currentBand),
                     Number(currentRate), BandName(currentBand), at)

\* checkRecalibrationDue(lastReview, intervalDays): the values it can return.  With
\* no review date it returns true; otherwise it compares the date of the clock with
\* the stored date, which the clock of this model (seconds from the start) does not
\* decide: both outcomes are taken.
checkRecalibrationDue(lastReview, intervalDays) ==
    IF lastReview = Null THEN {TRUE} ELSE BOOLEAN

(***************************************************************************)
(* Conversions: src/lib/validators/index.ts, src/app/api/conversions        *)
(***************************************************************************)
\* The month of the clock, as calculateThermostat derives it, and a day in it.
ClockMonth == SubSeq(ClockDate, 1, 7)

ConversionDate == <<"2","0","2","4","-","0","1","-","0","5">>

\* JSON bodies of POST /api/conversions: a purchase of yen at 190 and a purchase of
\* no pence.  The optional fields are left out.
ConversionBodies ==
    {[date |-> ConversionDate, direction |-> "GBP_TO_JPY",
      gbpPence |-> 1000000, jpyAmount |-> 1900000, rate |-> 190],
     [date |-> ConversionDate, direction |-> "GBP_TO_JPY",
      gbpPence |-> 0, jpyAmount |-> 1900000, rate |-> 190]}

\* conversionSchema.safeParse(body).success, on bodies without optional fields.
conversionSchema(body) ==
    /\ IsIsoDate(body.date)
    /\ body.direction \in Directions
    /\ body.gbpPence > 0
    /\ body.jpyAmount > 0
    /\ body.rate > 0

\* The row db.insert(conversions).values({...}).returning() stores and returns.
\* created_at, the text of the clock, is kept as one token: no handler of the model
\* reads it.
InsertedConversion(lastId, data) ==
    [id |-> lastId + 1,
     date |-> data.date,
     direction |-> data.direction,
     gbp_amount |-> data.gbpPence,
     jpy_amount |-> data.jpyAmount,
     exchange_rate |-> data.rate,
     spot_rate |-> Null,
     fee_pct |-> 0,
     provider |-> "WISE",
     band_at_time |-> Null,
     notes |-> Null,
     created_at |-> "datetime('now')"]

\* POST /api/conversions with one body: 400 when the schema rejects it, 201 with the
\* stored row otherwise; maxRows bounds the table of the model.
PostConversionOf(body, maxRows) ==
    /\ input' = [fn |-> "POST /api/conversions", body |-> body]
    /\ IF ~conversionSchema(body)
       THEN /\ db' = db
            /\ output' = [status |-> 400, body |-> [errors |-> "issues"]]
       ELSE LET inserted == InsertedConversion(db.sqlite_sequence.conversions, body)
            IN /\ db.sqlite_sequence.conversions < maxRows
               /\ db' = [db EXCEPT !.conversions = Append(@, inserted),
                                   !.sqlite_sequence.conversions = inserted.id]
               /\ output' = [status |-> 201, body |-> inserted]
    /\ UNCHANGED now

\* POST /api/conversions: 400 on a body the schema rejects, 201 with the stored row.
PostConversion ==
    \E body \in ConversionBodies : PostConversionOf(body, MaxDbConversions)

\* The [id] segment of DELETE /api/conversions/[id]: the id of the first row, there
\* or already deleted, and a text that is not a number.
ConversionIdTexts == {<<"1">>, <<"x">>}

\* DELETE /api/conversions/[id]: 400 when the id is not a number; otherwise the row
\* of that id, if any, is removed and the answer is { success: true } either way.
\* Number(id) on the texts of the model: decimal digits give their value, a text with
\* another character gives NaN.  The AUTOINCREMENT sequence keeps the largest id ever
\* used.
DeleteConversion ==
    \E id \in ConversionIdTexts :
        LET digits == <<"0", "1", "2", "3", "4", "5", "6", "7", "8", "9">>
            DigitValue(c) == (CHOOSE d \in DOMAIN digits : digits[d] = c) - 1
            IsDigit(c) == \E d \in DOMAIN digits : digits[d] = c
            RECURSIVE ValueOfDigits(_)
            ValueOfDigits(n) ==
                IF n = 0 THEN 0 ELSE 10 * ValueOfDigits(n - 1) + DigitValue(id[n])
            isNaN == \E i \in DOMAIN id : ~IsDigit(id[i])
            numericId == IF isNaN THEN 0 ELSE ValueOfDigits(Len(id))
            Kept(row) == row.id # numericId
        IN /\ input' = [fn |-> "DELETE /api/conversions/[id]", id |-> id]
           /\ IF isNaN
              THEN /\ db' = db
                   /\ output' = [status |-> 400,
                                 body |-> [error |-> "Invalid conversion ID"]]
              ELSE /\ db' = [db EXCEPT !.conversions = SelectSeq(@, Kept)]
                   /\ output' = [status |-> 200, body |-> [success |-> TRUE]]
           /\ UNCHANGED now

(***************************************************************************)
(* Endpoints that need the current rate                                    *)
(***************************************************************************)
NoRateData == [status |-> 503, body |-> [error |-> "No rate data available"]]

SettingsNotConfigured == [status |-> 500, body |-> [error |-> "Settings not configured"]]

ThresholdsOf(config) ==
    [aggressiveAbove |-> config.aggressive_above,
     normalAbove |-> config.normal_above,
     holdAbove |-> config.hold_above]

\* GET /api/rates: resolves the rate, then, when the settings exist, raises the
\* band-change, circuit-breaker and recalibration alerts and lists the
\* unacknowledged ones.  (A value bound by \E over a one-element set is computed once.)
GetRates ==
    \E fetched \in FetchOutcomes :
      \E resolved \in {ResolveRate(db.rate_history, fetched)} :
        LET rateInfo == resolved.rateInfo
        IN /\ input' = [fn |-> "GET /api/rates", fetched |-> fetched]
           /\ IF rateInfo = Null
              THEN /\ db' = [db EXCEPT !.rate_history = resolved.table]
                   /\ output' = NoRateData
              ELSE IF db.settings = <<>>
              THEN /\ db' = [db EXCEPT !.rate_history = resolved.table]
                   /\ output' = [status |-> 200,
                                 body |-> [rate |-> rateInfo,
                                           band |-> Null,
                                           fallback |-> resolved.fallback,
                                           circuitBreaker |-> Null,
                                           alerts |-> {}]]
              ELSE LET config == db.settings[1]
                       band == determineBand(rateInfo.rate, ThresholdsOf(config))
                   IN \E circuitBreaker \in
                             {checkCircuitBreaker(db.conversions, rateInfo.rate, config)},
                         lastBandAlert \in LatestOfType(db.alerts, "band_change") :
                      LET afterBand ==
                              checkAndCreateBandChangeAlert(db.alerts, lastBandAlert,
                                                            band.band, rateInfo.rate, now)
                      IN \E lastCbAlert \in LatestOfType(afterBand, "circuit_breaker") :
                         LET shouldCreate ==
                                 lastCbAlert = Null \/ lastCbAlert.acknowledged = 1
                             afterBreaker ==
                                 IF circuitBreaker.triggered /\ shouldCreate
                                 THEN createAlert(afterBand, "circuit_breaker",
                                                  circuitBreaker.message,
                                                  Number(rateInfo.rate), Null, now)
                                 ELSE afterBand
                         IN \E due \in checkRecalibrationDue(config.last_band_review,
                                                             config.review_interval_days),
                               existingRecalAlert \in LatestOfType(afterBreaker, "recalibrate") :
                            LET hasUnacknowledged ==
                                    existingRecalAlert # Null
                                        /\ existingRecalAlert.acknowledged = 0
                            IN \E afterRecal \in
                                   {IF due /\ ~hasUnacknowledged
                                    THEN createAlert(afterBreaker, "recalibrate",
                                                     "Band thresholds may need review. Consider recalibrating your strategy.",
                                                     Null, Null, now)
                                    ELSE afterBreaker} :
                               /\ Len(afterRecal) <= MaxAlerts
                               /\ db' = [db EXCEPT !.rate_history = resolved.table,
                                                   !.alerts = afterRecal]
                               /\ output' =
                                      [status |-> 200,
                                       body |-> [rate |-> rateInfo,
                                                 band |-> band,
                                                 fallback |-> resolved.fallback,
                                                 circuitBreaker |-> circuitBreaker,
                                                 alerts |-> getUnacknowledgedAlerts(afterRecal)]]
           /\ UNCHANGED now

\* GET /api/thermostat with one outcome of the rate fetch: resolves the rate as
\* GET /api/rates does; 500 without settings.
GetThermostatOf(fetched) ==
    LET resolved == ResolveRate(db.rate_history, fetched)
        rateInfo == resolved.rateInfo
    IN /\ input' = [fn |-> "GET /api/thermostat", fetched |-> fetched]
       /\ db' = [db EXCEPT !.rate_history = resolved.table]
       /\ IF rateInfo = Null
          THEN output' = NoRateData
          ELSE IF db.settings = <<>>
          THEN output' = SettingsNotConfigured
          ELSE LET config == db.settings[1]
                   band == determineBand(rateInfo.rate, ThresholdsOf(config))
                   thermostat ==
                       calculateThermostat(band.band, config, db.conversions, ClockMonth)
               IN output' = [status |-> 200,
                             body |-> [thermostat |-> thermostat,
                                       rate |-> rateInfo,
                                       band |-> band,
                                       fallback |-> resolved.fallback]]
       /\ UNCHANGED now

\* GET /api/thermostat, whatever the rate service does.
GetThermostat == \E fetched \in FetchOutcomes : GetThermostatOf(fetched)

\* GET /api/projections: resolves the rate without recording whether it fell back;
\* of its response the current rate and the portfolio summary are kept.
GetProjections ==
    \E fetched \in FetchOutcomes :
        LET resolved == ResolveRate(db.rate_history, fetched)
            rateInfo == resolved.rateInfo
        IN /\ input' = [fn |-> "GET /api/projections", fetched |-> fetched]
           /\ db' = [db EXCEPT !.rate_history = resolved.table]
           /\ IF rateInfo = Null
              THEN output' = NoRateData
              ELSE IF db.settings = <<>>
              THEN output' = SettingsNotConfigured
              ELSE output' =
                       [status |-> 200,
                        body |-> [currentRate |-> rateInfo.rate,
                                  portfolio |->
                                      calculatePortfolioSummary(db.conversions,
                                                                rateInfo.rate)]]
           /\ UNCHANGED now

(***************************************************************************)
(* POST /api/alerts (src/unnamed/part_008, lines 28-52)                    *)
(***************************************************************************)
\* JSON bodies of the acknowledgement request: all, one id (the first two and one no
\* row has), neither.
AlertBodies ==
    {[all |-> TRUE], [other |-> TRUE]} \cup {[id |-> k] : k \in {1, 2, MaxAlerts + 1}}

PostAlerts ==
    \E data \in AlertBodies :
        /\ input' = [fn |-> "POST /api/alerts", body |-> data]
        /\ IF "all" \in DOMAIN data /\ data.all = TRUE
           THEN /\ db' = [db EXCEPT !.alerts = acknowledgeAllAlerts(@)]
                /\ output' = [status |-> 200,
                              body |-> [success |-> TRUE,
                                        message |-> "All alerts acknowledged"]]
           ELSE IF "id" \in DOMAIN data
           THEN /\ db' = [db EXCEPT !.alerts = acknowledgeAlert(@, data.id)]
                /\ output' = [status |-> 200,
                              body |-> [success |-> TRUE,
                                        message |-> "Alert {id} acknowledged"]]
           ELSE /\ db' = db
                /\ output' = [status |-> 400,
                              body |-> [error |-> "Provide { id: number } or { all: true }"]]
        /\ UNCHANGED now

\* The endpoints that need the current rate; the settings are the row
\* GET /api/settings creates.
NextRates ==
    \/ GetSettings
    \/ GetRates
    \/ GetThermostat
    \/ GetProjections
    \/ Tick

SpecRates == InitServer /\ [][NextRates]_vars

\* The server once the seed script has run.
InitSeeded ==
    /\ input = [fn |-> "seed"]
    /\ output = [log |-> "Default settings inserted."]
    /\ db = [EmptyDb EXCEPT !.settings = <<InsertedSettings([id |-> 1], 0)>>]
    /\ now = 0

\* Rate polls and acknowledgement requests on the seeded database, with the
\* conversions the circuit breaker reads, all within one second of the clock: every
\* alert of a type is then one the "latest of its type" queries can return, the
\* one created last included.
NextAlerts ==
    \/ PostConversion
    \/ DeleteConversion
    \/ GetRates
    \/ PostAlerts

SpecAlerts == InitSeeded /\ [][NextAlerts]_vars

(***************************************************************************)
(* The conversion log kept under the thermostat's guidance:                *)
(* GET /api/thermostat followed by POST /api/conversions                   *)
(***************************************************************************)
\* A day of the month before the clock's.
EarlierDate == <<"2","0","2","3","-","1","2","-","0","5">>

\* The settings row after the seed and a PUT /api/settings that set the caps, the
\* savings and the exposure limit; the limit of 50 percent is a half that rounds up.
LedgerSettings ==
    {[InsertedSettings([id |-> 1], 0) EXCEPT
          !.cap_aggressive_gbp = MaxCap,
          !.cap_normal_gbp = 1,
          !.total_gbp_savings_pence = MaxSavings,
          !.max_fx_exposure_pct = pct] : pct \in {50, 100}}

\* Bodies of POST /api/conversions in the log: purchases and reversals of a few
\* pence, dated in the month of the clock or before it.
LedgerBodies ==
    [date : {ConversionDate, EarlierDate},
     direction : Directions,
     gbpPence : {1, MaxGbp},
     jpyAmount : {190},
     rate : {190}]

\* GET /api/thermostat while the log is kept: the rate fetch throws, or resolves to
\* a rate of the clock's day.
GetThermostatForLedger ==
    \E fetched \in {f \in FetchOutcomes : f = FetchFailed \/ ~f.isStale} :
        GetThermostatOf(fetched)

\* The server with its settings fixed and a log of no conversion or of one purchase
\* within the exposure limit.
InitLedger ==
    /\ input = [fn |-> "seed"]
    /\ output = [log |-> "Default settings inserted."]
    /\ \E config \in LedgerSettings :
       \E logged \in {<<>>} \cup {<<InsertedConversion(0, body)>> :
                                     body \in {b \in LedgerBodies :
                                                   /\ b.direction = "GBP_TO_JPY"
                                                   /\ b.gbpPence <= MaxExposure(config)}} :
           db = [EmptyDb EXCEPT !.settings = <<config>>,
                                !.conversions = logged,
                                !.sqlite_sequence.conversions = Len(logged)]
    /\ now = 0

\* The user logs a purchase after asking the thermostat: the last request was
\* GET /api/thermostat, it answered 200, and the amount is within its suggestion.
PostSuggestedConversion ==
    /\ input.fn = "GET /api/thermostat"
    /\ output.status = 200
    /\ \E body \in LedgerBodies :
           /\ body.direction = "GBP_TO_JPY"
           /\ body.gbpPence <= output.body.thermostat.suggestedAmount
           /\ PostConversionOf(body, MaxLedger)

\* The user logs a reversal, at any time.
PostReversal ==
    \E body \in LedgerBodies :
        /\ body.direction = "JPY_TO_GBP"
        /\ PostConversionOf(body, MaxLedger)

NextLedger ==
    \/ GetThermostatForLedger
    \/ PostSuggestedConversion
    \/ PostReversal

SpecLedger == InitLedger /\ [][NextLedger]_vars

\* C29: under fixed settings, starting from a log with 0 <= netDeployed <=
\* maxExposure, when every purchase logged is no larger than the suggestedAmount the
\* thermostat returned for the log just before it (reversals at any time), then
\* after every step netDeployed <= maxExposure.
C29_SuggestionsKeepExposureWithinLimit ==
    NetDeployed(db.conversions) <= MaxExposure(db.settings[1])

\* A log brought exactly to a positive exposure limit by a purchase the thermostat
\* suggested, with a reversal before it.
C29_Witness ==
    /\ input.fn = "POST /api/conversions"
    /\ output.status = 201
    /\ output.body.direction = "GBP_TO_JPY"
    /\ Len(db.conversions) = MaxLedger
    /\ \E i \in DOMAIN db.conversions : db.conversions[i].direction = "JPY_TO_GBP"
    /\ NetDeployed(db.conversions) = MaxExposure(db.settings[1])

\* The rows of an alerts table, and the row of a given id.
AlertRowsOfClaim(table) == {table[i] : i \in DOMAIN table}

SameButAcknowledgedOfClaim(before, after) ==
    /\ after.id = before.id
    /\ after.type = before.type
    /\ after.message = before.message
    /\ after.rate = before.rate
    /\ after.band = before.band
    /\ after.created_at = before.created_at
    /\ after.acknowledged \in {0, 1}
    /\ before.acknowledged = 1 => after.acknowledged = 1

AcknowledgesOneOfClaim ==
    /\ input'.fn = "POST /api/alerts"
    /\ "id" \in DOMAIN input'.body

\* C19: over rate polls and acknowledgement requests every alert row stays in the
\* table with its id, type, message, rate, band and creation time, its acknowledged
\* flag only ever going from 0 to 1; and a request that acknowledges one id leaves
\* every row of another id as it was and adds none.
C19_AlertsChangeOnlyByAcknowledgement ==
    [][/\ \A before \in AlertRowsOfClaim(db.alerts) :
              \E after \in AlertRowsOfClaim(db'.alerts) :
                  SameButAcknowledgedOfClaim(before, after)
       /\ Len(db'.alerts) >= Len(db.alerts)
       /\ AcknowledgesOneOfClaim =>
              /\ Len(db'.alerts) = Len(db.alerts)
              /\ \A before \in AlertRowsOfClaim(db.alerts) :
                     before.id # input'.body.id =>
                         before \in AlertRowsOfClaim(db'.alerts)]_vars

\* Alert 2 has just been acknowledged by its id in a table that holds a
\* circuit-breaker alert, and an alert of another id is still unacknowledged.
C19_Witness ==
    /\ input.fn = "POST /api/alerts"
    /\ "id" \in DOMAIN input.body
    /\ input.body.id = 2
    /\ output.status = 200
    /\ Len(db.alerts) = MaxAlerts
    /\ \E row \in AlertRowsOfClaim(db.alerts) : row.type = "circuit_breaker"
    /\ \E row \in AlertRowsOfClaim(db.alerts) : row.id = 2 /\ row.acknowledged = 1
    /\ \E row \in AlertRowsOfClaim(db.alerts) : row.id # 2 /\ row.acknowledged = 0

\* The alerts of a type, and the one of them created last (ids grow with creation).
AlertsOfTypeOfClaim(table, type) ==
    {row \in AlertRowsOfClaim(table) : row.type = type}

LastCreatedOfClaim(rows) == CHOOSE row \in rows : \A other \in rows : other.id <= row.id

\* The alerts of a type a step created.
CreatedOfClaim(type) ==
    {row \in AlertsOfTypeOfClaim(db'.alerts, type) :
        \A old \in AlertRowsOfClaim(db.alerts) : old.id # row.id}

\* A rate poll that determined a band.
PollWithBandOfClaim ==
    /\ input'.fn = "GET /api/rates"
    /\ output'.status = 200
    /\ output'.body.band # Null

\* C27: a band_change alert is created only if none exists yet or the most recently
\* created one carries a different band: no two band_change alerts created one after
\* the other carry the same band, and a poll whose band is that of the latest
\* band_change alert creates none, acknowledged or not.
C27_BandChangeOnlyOnChange ==
    /\ [](\A a, b \in AlertsOfTypeOfClaim(db.alerts, "band_change") :
              (/\ a.id < b.id
               /\ \A c \in AlertsOfTypeOfClaim(db.alerts, "band_change") :
                      ~(a.id < c.id /\ c.id < b.id))
                  => a.band # b.band)
    /\ [][PollWithBandOfClaim =>
              LET before == AlertsOfTypeOfClaim(db.alerts, "band_change")
                  polled == [band |-> output'.body.band.band]
              IN IF before # {} /\ LastCreatedOfClaim(before).band = polled
                 THEN CreatedOfClaim("band_change") = {}
                 ELSE \A row \in CreatedOfClaim("band_change") : row.band = polled]_vars

\* C28: for each of the types circuit_breaker and recalibrate at most one alert is
\* unacknowledged at any time, and it is the one of its type created last; a new one
\* is created only when every earlier one of its type has been acknowledged.
C28_OneUnacknowledgedPerType ==
    /\ [](\A type \in {"circuit_breaker", "recalibrate"} :
              LET rows == AlertsOfTypeOfClaim(db.alerts, type)
              IN \A row \in rows :
                     row.acknowledged = 0 => row = LastCreatedOfClaim(rows))
    /\ [][\A type \in {"circuit_breaker", "recalibrate"} :
              CreatedOfClaim(type) # {} =>
                  \A old \in AlertsOfTypeOfClaim(db.alerts, type) : old.acknowledged = 1]_vars

\* The endpoints that need the current rate.
RateEndpointsOfClaim ==
    {"GET /api/rates", "GET /api/thermostat", "GET /api/projections"}

DecimalsOfClaim == <<"0", "1", "2", "3", "4", "5", "6", "7", "8", "9">>

DigitOfClaim(c) == (CHOOSE k \in DOMAIN DecimalsOfClaim : DecimalsOfClaim[k] = c) - 1

\* The day a YYYY-MM-DD date names, as the number YYYYMMDD.
DayNumberOfClaim(date) ==
    LET Place(i) == DigitOfClaim(date[i])
    IN 10000000 * Place(1) + 1000000 * Place(2) + 100000 * Place(3) + 10000 * Place(4)
           + 1000 * Place(6) + 100 * Place(7) + 10 * Place(9) + Place(10)

\* The rate-history entries with the greatest date.
MostRecentOfClaim(table) ==
    {row \in table :
        \A other \in table : DayNumberOfClaim(other.date) <= DayNumberOfClaim(row.date)}

\* The rate a 200 response was computed from.
RateUsedOfClaim(fn, body) ==
    IF fn = "GET /api/projections" THEN body.currentRate ELSE body.rate.rate

FlaggedOfClaim(body) == "fallback" \in DOMAIN body /\ body.fallback = TRUE

\* One request to one of the given endpoints keeps the fallback contract.
FallbackContractOfClaim(endpoints) ==
    (input'.fn \in endpoints /\ now' = now) =>
        IF input'.fetched = FetchFailed
        THEN IF db.rate_history = {}
             THEN output'.status = 503 /\ db'.alerts = db.alerts
             ELSE /\ db'.rate_history = db.rate_history
                  /\ output'.status # 503
                  /\ output'.status = 200 =>
                         /\ \E row \in MostRecentOfClaim(db.rate_history) :
                                RateUsedOfClaim(input'.fn, output'.body) = row.rate
                         /\ FlaggedOfClaim(output'.body)
        ELSE /\ \E row \in db'.rate_history :
                    /\ row.date = input'.fetched.date
                    /\ row.rate = input'.fetched.rate
                    /\ \A other \in db'.rate_history : other.date = row.date => other = row
             /\ output'.status = 200 =>
                    /\ RateUsedOfClaim(input'.fn, output'.body) = input'.fetched.rate
                    /\ ~FlaggedOfClaim(output'.body)

\* C20: when the live fetch fails, each of the three endpoints that need the current
\* rate computes its response from the rate-history entry of the greatest date and
\* flags the response as a fallback; when the fetch succeeds the fetched rate is
\* cached under its date and the response is not flagged; when the fetch fails and
\* the cache is empty the answer is 503 and no alert is created.
C20_FetchFailureFallsBackAndFlags ==
    [][FallbackContractOfClaim(RateEndpointsOfClaim)]_vars

(***************************************************************************)
(* All the calls together.                                                 *)
(***************************************************************************)
Init ==
    \/ InitBand
    \/ InitBandPair
    \/ InitThermostat
    \/ InitCircuitBreaker
    \/ InitPortfolio
    \/ InitPortfolioOrder
    \/ InitRange
    \/ InitNisa
    \/ InitThermostatExtra
    \/ InitEngines
    \/ InitServer
    \/ InitLedger

Next ==
    \/ CallDetermineBand
    \/ CallDetermineBandTwice
    \/ CallCalculateThermostat
    \/ CallCalculateThermostatExtended
    \/ CallCheckCircuitBreaker
    \/ CallEngines
    \/ CallCalculatePortfolioSummary
    \/ CallCalculatePortfolioSummaryReordered
    \/ CallCalculate52WeekRange
    \/ CallCalculateNisaProjection
    \/ Seed
    \/ GetSettings
    \/ PutSettings
    \/ PostConversion
    \/ DeleteConversion
    \/ GetRates
    \/ GetThermostat
    \/ GetProjections
    \/ PostAlerts
    \/ GetThermostatForLedger
    \/ PostSuggestedConversion
    \/ PostReversal
    \/ Tick

Spec == Init /\ [][Next]_vars

====
